---- MODULE Spec2Model ----
(***************************************************************************)
(* Model of the Idea2Paper pipeline (Paper-KG-Pipeline/scripts):           *)
(*   - Idea2StoryPipeline.run and the classes it drives (PatternSelector,  *)
(*     StoryGenerator, MultiAgentCritic, RefinementEngine, RAGVerifier),   *)
(*     idea2story_pipeline.py;                                             *)
(*   - RecallSystem.recall, the three-path recall and its fusion,          *)
(*     recall_system.py.                                                   *)
(* Scores are kept in tenths of a point (7.0 is 70), similarities in       *)
(* hundredths (0.75 is 75).                                                *)
(***************************************************************************)
EXTENDS Integers, Sequences, FiniteSets, TLC

(***************************************************************************)
(* Bounds of the model.                                                    *)
(***************************************************************************)
\* longest recalled-pattern list handed to the pipeline
MaxPatterns == 5

\* largest set of pattern ids whose every iteration order is explored
MaxShuffled == 3

(***************************************************************************)
(* PipelineConfig, idea2story_pipeline.py:38-55.                           *)
(***************************************************************************)
INNOVATIVE_CLUSTER_SIZE_THRESHOLD == 10
PASS_SCORE == 70
MAX_REFINE_ITERATIONS == 3
COLLISION_THRESHOLD == 75
TAIL_INJECTION_RANK_RANGE == <<4, 9>>
HEAD_INJECTION_RANK_RANGE == <<0, 2>>
HEAD_INJECTION_CLUSTER_THRESHOLD == 15
\* improvement of the Novelty score below which the score counts as stalled
STALL_MARGIN == 5

(***************************************************************************)
(* Input domains.                                                          *)
(***************************************************************************)
\* cluster sizes of the pipeline's inputs: a niche size (< 10) and a mature
\* size (> 15)
ClusterSizes == {3, 20}

\* A recalled pattern is (pattern_id, pattern_info, score); run() reads only
\* the id and pattern_info['cluster_size'].  Ids are pairwise distinct (the
\* list is built from the items of a dict); rank i carries id i.
PatternLists ==
  UNION { { [i \in 1..n |-> [pattern_id |-> i, cluster_size |-> cs[i]]] :
              cs \in [1..n -> ClusterSizes] } : n \in 0..MaxPatterns }

\* Scores <<Methodology, Novelty, Storyteller>> one review() can return.
ReviewerScores ==
  { <<80, 40, 90>>,     \* mean exactly 7.0: pass
    <<80, 40, 60>>,     \* Novelty lowest
    <<80, 45, 60>>,     \* Novelty lowest, 0.5 above 4.0
    <<80, 50, 60>>,     \* Novelty lowest, 1.0 above 4.0
    <<45, 45, 60>>,     \* Methodology and Novelty tie for lowest
    <<80, 45, 40>> }    \* Storyteller lowest

\* max_similarity values verify() can report
Similarities == {75, 76}

Min(a, b) == IF a <= b THEN a ELSE b

(***************************************************************************)
(* list.sort(key=cluster_size[, reverse=True]): a stable sort.             *)
(***************************************************************************)
RECURSIVE InsertByCluster(_, _, _)
InsertByCluster(sorted, p, reverse) ==
  IF sorted = <<>> THEN <<p>>
  ELSE LET last == sorted[Len(sorted)]
           before == IF reverse THEN last.cluster_size >= p.cluster_size
                                ELSE last.cluster_size <= p.cluster_size
       IN IF before THEN Append(sorted, p)
          ELSE Append(InsertByCluster(SubSeq(sorted, 1, Len(sorted) - 1), p, reverse), last)

RECURSIVE SortByCluster(_, _)
SortByCluster(s, reverse) ==
  IF s = <<>> THEN <<>>
  ELSE InsertByCluster(SortByCluster(SubSeq(s, 1, Len(s) - 1), reverse), s[Len(s)], reverse)

\* recalled_patterns[a:b] (Python slice, 0-based, end exclusive)
Slice(s, a, b) ==
  IF a >= Min(b, Len(s)) THEN <<>> ELSE SubSeq(s, a + 1, Min(b, Len(s)))

Unused(s, used) == SelectSeq(s, LAMBDA p : p.pattern_id \notin used)

(***************************************************************************)
(* PatternSelector                                                         *)
(***************************************************************************)
\* None
NoPattern == 0

_select_conservative(recalled) ==
  IF recalled = <<>> THEN NoPattern ELSE recalled[1].pattern_id

\* always the smallest remaining cluster, the niche rule dropped
_select_innovative_smallest(recalled, exclude) ==
  LET candidates == SortByCluster(Unused(recalled, exclude), FALSE)
  IN IF candidates # <<>> THEN candidates[1].pattern_id ELSE NoPattern

_select_innovative(recalled, exclude) ==
  LET niche == SelectSeq(recalled, LAMBDA p :
                 /\ p.pattern_id \notin exclude
                 /\ p.cluster_size < INNOVATIVE_CLUSTER_SIZE_THRESHOLD)
      candidates == IF niche # <<>> THEN niche
                    ELSE SortByCluster(Unused(recalled, exclude), FALSE)
  IN IF candidates # <<>> THEN candidates[1].pattern_id ELSE NoPattern

\* the exclusion list ignored
_select_cross_domain_no_exclude(recalled, exclude) ==
  IF recalled # <<>> THEN recalled[1].pattern_id ELSE NoPattern

_select_cross_domain(recalled, exclude) ==
  LET candidates == Unused(recalled, exclude)
  IN IF candidates # <<>> THEN candidates[1].pattern_id ELSE NoPattern

\* the dict returned by select(): slot name -> pattern id, absent slots left out
select(recalled) ==
  LET conservative == _select_conservative(recalled)
      innovative == _select_innovative(recalled,
                      IF conservative # NoPattern THEN {conservative} ELSE {})
      cross_domain == _select_cross_domain(recalled, {conservative, innovative})
      slot == [conservative |-> conservative, innovative |-> innovative,
               cross_domain |-> cross_domain]
  IN [k \in {n \in DOMAIN slot : slot[n] # NoPattern} |-> slot[k]]

(***************************************************************************)
(* MultiAgentCritic                                                        *)
(***************************************************************************)
\* reviewers whose third role is spelt differently from the diagnosis
RolesMisspelt == <<"Methodology", "Novelty", "Story Teller">>

\* the roles of self.reviewers, lines 654-658
Roles == <<"Methodology", "Novelty", "Storyteller">>

RECURSIVE SeqMin(_)
SeqMin(s) == IF Len(s) = 1 THEN s[1] ELSE Min(s[1], SeqMin(Tail(s)))

\* the last position holding the minimum
MinIndexLast(scores) ==
  CHOOSE i \in 1..Len(scores) :
    /\ scores[i] = SeqMin(scores)
    /\ \A j \in (i + 1)..Len(scores) : scores[j] # SeqMin(scores)

\* scores.index(min(scores)): the first position holding the minimum
MinIndex(scores) ==
  CHOOSE i \in 1..Len(scores) :
    /\ scores[i] = SeqMin(scores)
    /\ \A j \in 1..(i - 1) : scores[j] # SeqMin(scores)

_diagnose_issue(scores) ==
  LET role == Roles[MinIndex(scores)]
  IN CASE role = "Novelty" -> "novelty"
       [] role = "Methodology" -> "stability"
       [] role = "Storyteller" -> "interpretability"
       [] OTHER -> "domain_mismatch"

\* a pass only above PASS_SCORE
PassedAbove(scores) == scores[1] + scores[2] + scores[3] > PASS_SCORE * Len(scores)

\* avg_score >= PASS_SCORE, with avg_score = sum(scores) / len(scores)
Passed(scores) == scores[1] + scores[2] + scores[3] >= PASS_SCORE * Len(scores)

review(scores) ==
  [pass |-> Passed(scores), scores |-> scores, main_issue |-> _diagnose_issue(scores)]

\* next(r['score'] for r in reviews if r['role'] == 'Novelty')
NoveltyScore(critic_result) == critic_result.scores[2]

(***************************************************************************)
(* RefinementEngine                                                        *)
(***************************************************************************)
\* An injected technique note is modelled by what it is derived from:
\* <<strategy, pattern id>> for a note built from a pattern's data,
\* <<strategy, k>> with a fixed strategy name for the k-th fixed note.
PatternTricks(strategy, pid) == << <<strategy, pid>> >>
FixedTricks(strategy) == << <<strategy, 1>>, <<strategy, 2>>, <<strategy, 3>> >>

\* candidates of the tail rank window: unused and below the niche threshold
TailWindowCandidates(recalled, used) ==
  SelectSeq(Slice(recalled, TAIL_INJECTION_RANK_RANGE[1], TAIL_INJECTION_RANK_RANGE[2] + 1),
            LAMBDA p : /\ p.pattern_id \notin used
                       /\ p.cluster_size < INNOVATIVE_CLUSTER_SIZE_THRESHOLD)

\* the relaxed search without the used_patterns filter
TailRelaxedCandidatesAll(recalled, used) ==
  SortByCluster(recalled, FALSE)

\* relaxed search: every unused recalled pattern, smallest cluster first
TailRelaxedCandidates(recalled, used) ==
  SortByCluster(Unused(recalled, used), FALSE)

\* returns the pattern selected (NoPattern when none) and the notes injected
_inject_tail_tricks(recalled, used) ==
  LET window == TailWindowCandidates(recalled, used)
      candidates == IF window # <<>> THEN window
                    ELSE TailRelaxedCandidates(recalled, used)
  IN IF candidates = <<>>
     THEN [selected |-> NoPattern, tricks |-> FixedTricks("generic")]
     ELSE LET selected_pattern == SortByCluster(candidates, FALSE)[1]
          IN [selected |-> selected_pattern.pattern_id,
              tricks |-> PatternTricks("tail", selected_pattern.pattern_id)]

\* candidates of the head rank window: unused and above the mature threshold
HeadWindowCandidates(recalled, used) ==
  SelectSeq(Slice(recalled, HEAD_INJECTION_RANK_RANGE[1], HEAD_INJECTION_RANK_RANGE[2] + 1),
            LAMBDA p : /\ p.pattern_id \notin used
                       /\ p.cluster_size > HEAD_INJECTION_CLUSTER_THRESHOLD)

\* first fallback: unused patterns of recalled_patterns[:3], largest cluster first
HeadRelaxedCandidates(recalled, used) ==
  SortByCluster(Unused(Slice(recalled, 0, 3), used), TRUE)

\* second fallback: unused patterns of recalled_patterns[3:6], largest cluster first
HeadMiddleCandidates(recalled, used) ==
  SortByCluster(Unused(Slice(recalled, 3, 6), used), TRUE)

_inject_head_tricks(recalled, used) ==
  LET window == HeadWindowCandidates(recalled, used)
      relaxed == IF window # <<>> THEN window ELSE HeadRelaxedCandidates(recalled, used)
      candidates == IF relaxed # <<>> THEN relaxed ELSE HeadMiddleCandidates(recalled, used)
  IN IF candidates = <<>>
     THEN [selected |-> NoPattern, tricks |-> <<>>]
     ELSE [selected |-> candidates[1].pattern_id,
           tricks |-> PatternTricks("head", candidates[1].pattern_id)]

_inject_explanation_tricks == [selected |-> NoPattern, tricks |-> FixedTricks("explanation")]

_inject_domain_tricks == [selected |-> NoPattern, tricks |-> FixedTricks("domain")]

refine(main_issue, recalled, used) ==
  CASE main_issue = "novelty" -> _inject_tail_tricks(recalled, used)
    [] main_issue = "stability" -> _inject_head_tricks(recalled, used)
    [] main_issue = "interpretability" -> _inject_explanation_tricks
    [] main_issue = "domain_mismatch" -> _inject_domain_tricks
    [] OTHER -> [selected |-> NoPattern, tricks |-> <<>>]

\* a strategy that records its selection whether or not it selected a pattern
UsedAfterUnguarded(used, injection) == used \cup {injection.selected}

\* self.used_patterns.add(pattern_id), done by the strategy that selected one
UsedAfter(used, injection) ==
  IF injection.selected # NoPattern THEN used \cup {injection.selected} ELSE used

(***************************************************************************)
(* StoryGenerator.generate                                                 *)
(***************************************************************************)
\* A draft is identified by the generate() call that returned it; `empty' says
\* whether the dict is empty (falsy).  NoStory is previous_story=None.
NoStory == [id |-> 0, empty |-> TRUE]

\* `if previous_story and review_feedback': incremental edit, else fresh draft
GenerateMode(previous_story, has_feedback) ==
  IF ~previous_story.empty /\ has_feedback THEN "edit" ELSE "fresh"

\* llm_empty: the LLM answered with the empty JSON object.  With a truthy
\* previous_story every one of the six fields is assigned, so the dict is
\* non-empty whatever the LLM answered.
generate(call_id, previous_story, llm_empty) ==
  [id |-> call_id, empty |-> IF ~previous_story.empty THEN FALSE ELSE llm_empty]

(***************************************************************************)
(* RAGVerifier.verify, as far as run() depends on it: the result for a     *)
(* draft whose maximum similarity to the sampled papers is max_similarity. *)
(***************************************************************************)
CollisionDetected(max_similarity) == max_similarity > COLLISION_THRESHOLD

verify(max_similarity) ==
  [pass |-> ~CollisionDetected(max_similarity),
   collision_detected |-> CollisionDetected(max_similarity),
   max_similarity |-> max_similarity]

(***************************************************************************)
(* Idea2StoryPipeline.run                                                  *)
(***************************************************************************)
VARIABLES
  pc,                  \* position of run()
  recalled_patterns,   \* self.recalled_patterns
  selected_patterns,   \* selected_patterns
  pattern_id,          \* pattern_id (pattern_info is determined by it)
  iterations,          \* iterations
  constraints,         \* constraints: "None" or the pivot constraints
  injected_tricks,     \* injected_tricks
  review_history,      \* review_history
  refinement_history,  \* refinement_history
  used_patterns,       \* self.refinement_engine.used_patterns
  current_story,       \* current_story
  verification_result, \* verification_result
  result,              \* the dict returned by run()
  reviewCalls,         \* number of MultiAgentCritic.review calls
  verifyCalls,         \* number of RAGVerifier.verify calls
  refineCalls,         \* number of RefinementEngine.refine calls
  generateLog,         \* one entry per StoryGenerator.generate call
  selectionLog         \* one entry per pattern chosen by an injection or a switch

pipelineVars ==
  <<pc, recalled_patterns, selected_patterns, pattern_id, iterations, constraints,
    injected_tricks, review_history, refinement_history, used_patterns,
    current_story, verification_result, result, reviewCalls, verifyCalls,
    refineCalls, generateLog, selectionLog>>

VARIABLES
  rpc,           \* position of RecallSystem.recall
  user_idea,     \* the query text
  ideas,         \* self.ideas
  papers,        \* self.papers
  domains,       \* self.domains
  G,             \* self.G: [nodes, edges]
  path1_scores,  \* path1_scores
  path2_scores,  \* path2_scores
  path3_scores,  \* path3_scores
  results,       \* the list returned by recall()
  variant,       \* which recall runs: RecallSystem.recall or the one inlined in main()
  discovery      \* pattern ids in the order the paths first gave them a score

\* what a recall reads and never writes
recallInputs == <<variant, user_idea, ideas, papers, domains, G>>

recallVars ==
  <<rpc, recallInputs, path1_scores, path2_scores, path3_scores, results, discovery>>

VARIABLES
  bpc,             \* position of EdgeBuilder.build_all_edges
  builder_ideas,   \* self.ideas of the EdgeBuilder
  builder_papers,  \* self.papers of the EdgeBuilder
  builder_G        \* the edges added to self.G

builderVars == <<bpc, builder_ideas, builder_papers, builder_G>>

VARIABLES
  vpc,               \* position of a RAGVerifier.verify call on texts
  method_skeleton,   \* story.get('method_skeleton', '')
  verifier_papers,   \* self.papers of the RAGVerifier
  verifier_result    \* what verify returned

verifierVars == <<vpc, method_skeleton, verifier_papers, verifier_result>>

VARIABLES
  tpc,               \* position of a run() whose LLM responses carry typed fields
  typed_story,       \* current_story: the Python type of each field
  typed_review,      \* critic_result: score and type of the feedback of each review
  typed_iterations,  \* iterations
  raised_at,         \* the function an unhandled exception left run() from
  all_failed         \* whether every LLM call of the run so far has failed

typedVars == <<tpc, typed_story, typed_review, typed_iterations, raised_at, all_failed>>

VARIABLES
  epc,               \* position of one StoryGenerator.generate call in editor mode
  editor_previous,   \* previous_story
  editor_response,   \* what call_llm returned
  editor_story       \* the story generate returns

editorVars == <<epc, editor_previous, editor_response, editor_story>>

vars == <<pipelineVars, recallVars, builderVars, verifierVars, typedVars, editorVars>>

\* the variables a part of the model leaves alone
outsidePipeline == <<recallVars, builderVars, verifierVars, typedVars, editorVars>>
outsideRecall == <<pipelineVars, builderVars, verifierVars, typedVars, editorVars>>
outsideBuilder == <<pipelineVars, recallVars, verifierVars, typedVars, editorVars>>
outsideVerifier == <<pipelineVars, recallVars, builderVars, typedVars, editorVars>>
outsideTyped == <<pipelineVars, recallVars, builderVars, verifierVars, editorVars>>
outsideEditor == <<pipelineVars, recallVars, builderVars, verifierVars, typedVars>>

\* Python's None
NoneValue == [none |-> TRUE]

\* no generate call in editor mode
EditorIdle ==
  /\ epc = "idle"
  /\ editor_previous = NoneValue
  /\ editor_response = NoneValue
  /\ editor_story = NoneValue

\* no run() on typed responses
TypedIdle ==
  /\ tpc = "idle"
  /\ typed_story = NoneValue
  /\ typed_review = NoneValue
  /\ typed_iterations = 0
  /\ raised_at = ""
  /\ all_failed = FALSE

\* no verify call on texts
VerifierIdle ==
  /\ vpc = "idle"
  /\ method_skeleton = <<>>
  /\ verifier_papers = <<>>
  /\ verifier_result = [unset |-> TRUE]

\* no EdgeBuilder at work
BuilderIdle ==
  /\ bpc = "idle"
  /\ builder_ideas = <<>>
  /\ builder_papers = <<>>
  /\ builder_G = {}

\* value of a local variable that has not been assigned yet
Unset == [unset |-> TRUE]

LocalsUnset ==
  /\ selected_patterns = Unset
  /\ pattern_id = NoPattern
  /\ iterations = 0
  /\ constraints = "None"
  /\ injected_tricks = <<>>
  /\ review_history = <<>>
  /\ refinement_history = <<>>
  /\ used_patterns = {}
  /\ current_story = NoStory
  /\ verification_result = Unset
  /\ result = Unset
  /\ reviewCalls = 0
  /\ verifyCalls = 0
  /\ refineCalls = 0
  /\ generateLog = <<>>
  /\ selectionLog = <<>>

\* the state when run() is entered with one of the given recalled lists
RunEntered(lists) ==
  /\ pc = "select"
  /\ recalled_patterns \in lists
  /\ LocalsUnset

\* no pipeline is running
PipelineIdle ==
  /\ pc = "idle"
  /\ recalled_patterns = <<>>
  /\ LocalsUnset

\* a result of the same shape as that of a completed run
NoPatternResultFullShape ==
  [success |-> FALSE, final_story |-> NoStory, iterations |-> 0,
   selected_patterns |-> <<>>, review_history |-> <<>>,
   refinement_history |-> <<>>, verification_result |-> Unset]

\* `if not selected_patterns: return {'success': False}'
NoPatternResult == [success |-> FALSE]

\* 'conservative' if present, else the first key inserted
FirstPatternType(selected) ==
  IF "conservative" \in DOMAIN selected THEN "conservative"
  ELSE IF "innovative" \in DOMAIN selected THEN "innovative"
  ELSE "cross_domain"

\* Phase 1: pattern selection, and the early return when nothing was selected
Select ==
  /\ pc = "select"
  /\ LET selected == select(recalled_patterns)
     IN /\ selected_patterns' = selected
        /\ IF DOMAIN selected = {}
           THEN /\ result' = NoPatternResult
                /\ pc' = "done"
                /\ UNCHANGED pattern_id
           ELSE /\ pattern_id' = selected[FirstPatternType(selected)]
                /\ pc' = "generate"
                /\ UNCHANGED result
  /\ UNCHANGED outsidePipeline
  /\ UNCHANGED <<recalled_patterns, iterations, constraints, injected_tricks,
                 review_history, refinement_history, used_patterns, current_story,
                 verification_result, reviewCalls, verifyCalls, refineCalls,
                 generateLog, selectionLog>>

\* Phase 2: the initial generation (no previous story, no feedback)
InitialGenerate ==
  /\ pc = "generate"
  /\ \E llm_empty \in BOOLEAN :
       /\ current_story' = generate(Len(generateLog) + 1, NoStory, llm_empty)
       /\ generateLog' = Append(generateLog,
            [iteration |-> iterations, phase |-> "initial",
             mode |-> GenerateMode(NoStory, FALSE), pattern_id |-> pattern_id,
             switched |-> FALSE, previous |-> NoStory.id, constraints |-> constraints])
  /\ pc' = "loop"
  /\ UNCHANGED outsidePipeline
  /\ UNCHANGED <<recalled_patterns, selected_patterns, pattern_id, iterations,
                 constraints, injected_tricks, review_history, refinement_history,
                 used_patterns, verification_result, result, reviewCalls,
                 verifyCalls, refineCalls, selectionLog>>

LoopContinuesPastBudget(iters) == iters <= MAX_REFINE_ITERATIONS + 1

\* a loop that stops one iteration short of the budget
LoopContinuesBelowBudget(iters) == iters < MAX_REFINE_ITERATIONS - 1

\* `while iterations < PipelineConfig.MAX_REFINE_ITERATIONS'
LoopContinues(iters) == iters < MAX_REFINE_ITERATIONS

\* one pass of the loop up to the pass/fail decision, the reviewers' scores
\* being any of score_set
CritiqueWith(score_set) ==
  /\ pc = "loop"
  /\ LoopContinues(iterations)
  /\ iterations' = iterations + 1
  /\ \E scores \in score_set :
       LET critic_result == review(scores)
       IN /\ review_history' = Append(review_history, critic_result)
          /\ pc' = IF critic_result.pass THEN "verify" ELSE "refine"
  /\ reviewCalls' = reviewCalls + 1
  /\ UNCHANGED outsidePipeline
  /\ UNCHANGED <<recalled_patterns, selected_patterns, pattern_id, constraints,
                 injected_tricks, refinement_history, used_patterns, current_story,
                 verification_result, result, verifyCalls, refineCalls,
                 generateLog, selectionLog>>

Critique == CritiqueWith(ReviewerScores)

\* the loop condition fails: the budget is used up
LoopExit ==
  /\ pc = "loop"
  /\ ~LoopContinues(iterations)
  /\ pc' = "verify"
  /\ UNCHANGED outsidePipeline
  /\ UNCHANGED <<recalled_patterns, selected_patterns, pattern_id, iterations,
                 constraints, injected_tricks, review_history, refinement_history,
                 used_patterns, current_story, verification_result, result,
                 reviewCalls, verifyCalls, refineCalls, generateLog, selectionLog>>

\* the margin doubled
ScoreStalledLoose(curr_novelty_score, prev_novelty_score) ==
  curr_novelty_score <= prev_novelty_score + 2 * STALL_MARGIN

\* `curr_novelty_score <= prev_novelty_score + 0.5'
ScoreStalled(curr_novelty_score, prev_novelty_score) ==
  curr_novelty_score <= prev_novelty_score + STALL_MARGIN

\* the stall test of lines 1383-1390, on the history that already holds the
\* current critique
StallDetected(iters, history) ==
  LET critic_result == history[Len(history)]
      curr_novelty_score == NoveltyScore(critic_result)
      prev_novelty_score == IF Len(history) >= 2
                            THEN NoveltyScore(history[Len(history) - 1]) ELSE 0
  IN /\ iters >= 1
     /\ critic_result.main_issue = "novelty"
     /\ iters >= 2
     /\ ScoreStalled(curr_novelty_score, prev_novelty_score)

\* all_unused, sorted by cluster size ascending
AllUnused(recalled, used) == SortByCluster(Unused(recalled, used), FALSE)

InSeq(x, s) == \E i \in 1..Len(s) : s[i] = x

\* an accumulation that appends every new note
AccumulateAll(tricks, new_tricks) == tricks \o new_tricks

\* `for trick in new_tricks: if trick not in injected_tricks: append'
RECURSIVE Accumulate(_, _)
Accumulate(tricks, new_tricks) ==
  IF new_tricks = <<>> THEN tricks
  ELSE Accumulate(IF InSeq(Head(new_tricks), tricks) THEN tricks
                  ELSE Append(tricks, Head(new_tricks)),
                  Tail(new_tricks))

\* is_pattern_switch, lines 1433-1437, evaluated after the accumulation
IsPatternSwitch(iters, main_issue, tricks, new_tricks) ==
  /\ iters >= 2
  /\ main_issue = "novelty"
  /\ tricks = <<>>
  /\ new_tricks # <<>>

\* Phase 3.5: the rest of a failed pass: stall check and global switch,
\* refine(), accumulation of the notes, and the generation call
Refine ==
  /\ pc = "refine"
  /\ LET critic_result == review_history[Len(review_history)]
         main_issue == critic_result.main_issue
         all_unused == AllUnused(recalled_patterns, used_patterns)
         switch == StallDetected(iterations, review_history) /\ all_unused # <<>>
         pattern_now == IF switch THEN all_unused[1].pattern_id ELSE pattern_id
         tricks_before == IF switch THEN <<>> ELSE injected_tricks
         injection == refine(main_issue, recalled_patterns, used_patterns)
         new_tricks == injection.tricks
         tricks_now == Accumulate(tricks_before, new_tricks)
         is_pattern_switch == IsPatternSwitch(iterations, main_issue, tricks_now, new_tricks)
         previous_story == IF is_pattern_switch THEN NoStory ELSE current_story
         switchEntry == IF switch
                        THEN << [iteration |-> iterations, by |-> "switch",
                                 pattern_id |-> pattern_now, already |-> FALSE] >>
                        ELSE <<>>
         injectEntry == IF injection.selected # NoPattern
                        THEN << [iteration |-> iterations, by |-> main_issue,
                                 pattern_id |-> injection.selected,
                                 already |-> injection.selected \in used_patterns] >>
                        ELSE <<>>
     IN /\ pattern_id' = pattern_now
        /\ used_patterns' = UsedAfter(used_patterns, injection)
        /\ injected_tricks' = tricks_now
        /\ refinement_history' = Append(refinement_history,
             [iteration |-> iterations, issue |-> main_issue,
              injected_tricks |-> new_tricks])
        /\ selectionLog' = selectionLog \o switchEntry \o injectEntry
        /\ \E llm_empty \in BOOLEAN :
             /\ current_story' = generate(Len(generateLog) + 1, previous_story, llm_empty)
             /\ generateLog' = Append(generateLog,
                  [iteration |-> iterations, phase |-> "refine",
                   mode |-> GenerateMode(previous_story, ~is_pattern_switch),
                   pattern_id |-> pattern_now, switched |-> switch,
                   previous |-> previous_story.id, constraints |-> constraints])
  /\ refineCalls' = refineCalls + 1
  /\ pc' = "loop"
  /\ UNCHANGED outsidePipeline
  /\ UNCHANGED <<recalled_patterns, selected_patterns, iterations, constraints,
                 review_history, verification_result, result, reviewCalls, verifyCalls>>

\* the dict returned at the end of run()
FinalResult(success, story, iters, selected, reviews, refinements, verification) ==
  [success |-> success, final_story |-> story, iterations |-> iters,
   selected_patterns |-> selected, review_history |-> reviews,
   refinement_history |-> refinements, verification_result |-> verification]

\* Phase 4: the first verification; without a collision run() returns
Verify ==
  /\ pc = "verify"
  /\ \E max_similarity \in Similarities :
       LET verification == verify(max_similarity)
       IN /\ verification_result' = verification
          /\ IF verification.collision_detected
             THEN /\ pc' = "pivot"
                  /\ UNCHANGED result
             ELSE /\ pc' = "done"
                  /\ result' = FinalResult(verification.pass, current_story, iterations,
                                 selected_patterns, review_history, refinement_history,
                                 verification)
  /\ verifyCalls' = verifyCalls + 1
  /\ UNCHANGED outsidePipeline
  /\ UNCHANGED <<recalled_patterns, selected_patterns, pattern_id, iterations,
                 constraints, injected_tricks, review_history, refinement_history,
                 used_patterns, current_story, reviewCalls, refineCalls,
                 generateLog, selectionLog>>

\* a pivot that prefers the cross_domain slot
PivotPatternCrossDomainFirst(selected, current) ==
  IF "cross_domain" \in DOMAIN selected THEN selected["cross_domain"]
  ELSE IF "innovative" \in DOMAIN selected THEN selected["innovative"]
  ELSE current

\* the pattern the pivot generates from: innovative, else cross_domain, else unchanged
PivotPattern(selected, current) ==
  IF "innovative" \in DOMAIN selected THEN selected["innovative"]
  ELSE IF "cross_domain" \in DOMAIN selected THEN selected["cross_domain"]
  ELSE current

\* the pivot after a collision: constraints, one generation, one more verify
Pivot ==
  /\ pc = "pivot"
  /\ constraints' = "pivot"
  /\ pattern_id' = PivotPattern(selected_patterns, pattern_id)
  /\ \E llm_empty \in BOOLEAN, max_similarity \in Similarities :
       LET story == generate(Len(generateLog) + 1, NoStory, llm_empty)
           verification == verify(max_similarity)
       IN /\ current_story' = story
          /\ generateLog' = Append(generateLog,
               [iteration |-> iterations, phase |-> "pivot",
                mode |-> GenerateMode(NoStory, FALSE),
                pattern_id |-> PivotPattern(selected_patterns, pattern_id),
                switched |-> FALSE, previous |-> NoStory.id, constraints |-> "pivot"])
          /\ verification_result' = verification
          /\ result' = FinalResult(verification.pass, story, iterations,
                         selected_patterns, review_history, refinement_history,
                         verification)
  /\ verifyCalls' = verifyCalls + 1
  /\ pc' = "done"
  /\ UNCHANGED outsidePipeline
  /\ UNCHANGED <<recalled_patterns, selected_patterns, iterations, injected_tricks,
                 review_history, refinement_history, used_patterns, reviewCalls,
                 refineCalls, selectionLog>>

PipelineNext ==
  \/ Select
  \/ InitialGenerate
  \/ Critique
  \/ LoopExit
  \/ Refine
  \/ Verify
  \/ Pivot

(***************************************************************************)
(* RecallSystem (recall_system.py)                                         *)
(*                                                                         *)
(* A text is a sequence of characters.  Numbers are exact integers:        *)
(* similarities, keyword-match scores and belongs_to weights in 1/SimScale, *)
(* qualities, effectiveness and confidence in tenths, path scores in       *)
(* 1/(SimScale * 100), path weights in tenths.                             *)
(***************************************************************************)
SimScale == 2 * 2 * 3 * 5

\* RecallConfig, recall_system.py:33-51
PATH1_TOP_K_IDEAS == 10
PATH2_TOP_K_DOMAINS == 5
PATH3_TOP_K_PAPERS == 20
PATH1_WEIGHT == 4
PATH2_WEIGHT == 3
PATH3_WEIGHT == 3
FINAL_TOP_K == 10
\* `if sim > 0.1', in 1/SimScale
PATH3_MIN_SIMILARITY == SimScale \div 10
\* `max(effectiveness, 0.1)', in tenths
MIN_EFFECTIVENESS == 1

\* str.lower() on the characters of the model
Lower(ch) == CASE ch = "A" -> "a" [] ch = "B" -> "b" [] OTHER -> ch

LowerText(text) == [i \in 1..Len(text) |-> Lower(text[i])]

\* set(text.split()): the maximal runs of non-blank characters
RECURSIVE SplitFrom(_, _, _)
SplitFrom(text, word, words) ==
  IF text = <<>> THEN (IF word = <<>> THEN words ELSE words \cup {word})
  ELSE IF Head(text) = " "
       THEN SplitFrom(Tail(text), <<>>, IF word = <<>> THEN words ELSE words \cup {word})
       ELSE SplitFrom(Tail(text), Append(word, Head(text)), words)

Tokens(text) == SplitFrom(LowerText(text), <<>>, {})

_compute_text_similarity(text1, text2) ==
  LET tokens1 == Tokens(text1)
      tokens2 == Tokens(text2)
  IN IF tokens1 = {} \/ tokens2 = {} THEN 0
     ELSE (SimScale * Cardinality(tokens1 \cap tokens2))
            \div Cardinality(tokens1 \cup tokens2)

\* simple_recall_demo.compute_similarity: Jaccard similarity of the sets of
\* lowercased non-blank characters, 0 for an empty text
compute_similarity(text1, text2) ==
  LET tokens1 == {Lower(text1[i]) : i \in 1..Len(text1)} \ {" "}
      tokens2 == {Lower(text2[i]) : i \in 1..Len(text2)} \ {" "}
  IN IF text1 = <<>> \/ text2 = <<>> THEN 0
     ELSE IF tokens1 = {} \/ tokens2 = {} THEN 0
     ELSE (SimScale * Cardinality(tokens1 \cap tokens2))
            \div Cardinality(tokens1 \cup tokens2)

\* list.sort(key=lambda x: x.key, reverse=True): stable, descending
RECURSIVE InsertByKeyDesc(_, _)
InsertByKeyDesc(sorted, x) ==
  IF sorted = <<>> THEN <<x>>
  ELSE LET last == sorted[Len(sorted)]
       IN IF last.key >= x.key THEN Append(sorted, x)
          ELSE Append(InsertByKeyDesc(SubSeq(sorted, 1, Len(sorted) - 1), x), last)

RECURSIVE SortByKeyDesc(_)
SortByKeyDesc(s) ==
  IF s = <<>> THEN <<>>
  ELSE InsertByKeyDesc(SortByKeyDesc(SubSeq(s, 1, Len(s) - 1)), s[Len(s)])

RECURSIVE SumOf(_, _)
SumOf(S, f) ==
  IF S = {} THEN 0
  ELSE LET x == CHOOSE y \in S : TRUE IN f[x] + SumOf(S \ {x}, f)

\* a defaultdict(float) after `scores[c.pattern] += c.score' for every
\* contribution c: a key for every pattern touched, the sum as its value
Accumulated(contributions) ==
  LET value == [c \in contributions |-> c.score]
  IN [pid \in {c.pattern : c \in contributions} |->
        SumOf({c \in contributions : c.pattern = pid}, value)]

\* G.has_node, G.successors / G.predecessors restricted to one relation
HasNode(graph, id) == id \in graph.nodes

OutEdges(graph, id, relation) ==
  {e \in graph.edges : e.source = id /\ e.relation = relation}

InEdges(graph, id, relation) ==
  {e \in graph.edges : e.target = id /\ e.relation = relation}

\* an idea of similarity 0 kept
IdeaIsSimilarOrEqual(sim) == sim >= 0

\* `if sim > 0' of path 1 and of the path-2 fallback
IdeaIsSimilar(sim) == sim > 0

\* the ideas similar to the query, most similar first
SimilarIdeas(query, idea_list) ==
  SortByKeyDesc(
    SelectSeq([i \in 1..Len(idea_list) |->
                 [idea |-> idea_list[i],
                  key |-> _compute_text_similarity(query, idea_list[i].description)]],
              LAMBDA x : IdeaIsSimilar(x.key)))

_recall_path1_similar_ideas(query, idea_list, graph) ==
  LET top_ideas == Slice(SimilarIdeas(query, idea_list), 0, PATH1_TOP_K_IDEAS)
      contributions ==
        UNION { UNION { { [idea |-> top_ideas[i].idea.idea_id, paper |-> j,
                           pattern |-> e.target,
                           score |-> top_ideas[i].key * e.quality * 10] :
                            e \in OutEdges(graph, top_ideas[i].idea.source_paper_ids[j],
                                           "uses_pattern") } :
                        j \in { k \in 1..Len(top_ideas[i].idea.source_paper_ids) :
                                  HasNode(graph, top_ideas[i].idea.source_paper_ids[k]) } } :
                i \in 1..Len(top_ideas) }
  IN Accumulated(contributions)

\* len(user_tokens & domain_tokens) / max(len(user_tokens), 1)
KeywordMatch(query, name) ==
  LET user_tokens == Tokens(query)
      n == Cardinality(user_tokens)
  IN (SimScale * Cardinality(user_tokens \cap Tokens(name)))
       \div (IF n >= 1 THEN n ELSE 1)

\* domain_scores after the keyword match
MatchedDomains(query, domain_list) ==
  SelectSeq([i \in 1..Len(domain_list) |->
               [domain_id |-> domain_list[i].domain_id,
                key |-> KeywordMatch(query, domain_list[i].name)]],
            LAMBDA x : x.key > 0)

\* top_idea of the fallback: a sequence holding it, empty for None
FallbackIdea(query, idea_list) == Slice(SimilarIdeas(query, idea_list), 0, 1)

\* the belongs_to edges of the fallback idea, in any order of G.successors
FallbackDomainEdges(graph, top_idea) ==
  OutEdges(graph, top_idea.idea_id, "belongs_to")

\* the domains of domain_scores[:K] that are in domain_id_to_domain
KnownTopDomains(domain_scores, domain_list) ==
  SelectSeq(Slice(SortByKeyDesc(domain_scores), 0, PATH2_TOP_K_DOMAINS),
            LAMBDA x : \E i \in 1..Len(domain_list) :
                         domain_list[i].domain_id = x.domain_id)

Max(a, b) == IF a >= b THEN a ELSE b

\* step 3 of path 2
DomainPatternScores(top_domains, graph) ==
  Accumulated(
    UNION { { [domain |-> i, pattern |-> e.source,
               score |-> top_domains[i].key * Max(e.effectiveness, MIN_EFFECTIVENESS)
                          * e.confidence] :
                e \in InEdges(graph, top_domains[i].domain_id, "works_well_in") } :
            i \in 1..Len(top_domains) })

\* quality of a paper from its review ratings, in tenths
PaperQuality(ratings) ==
  IF ratings = <<>> THEN 5
  ELSE LET total == SumOf(1..Len(ratings), ratings)
       IN (10 * (total - Len(ratings))) \div (9 * Len(ratings))

\* the papers similar to the query that are graph nodes, best combined weight first
SimilarPapers(query, paper_list, graph) ==
  SortByKeyDesc(
    SelectSeq([i \in 1..Len(paper_list) |->
                 [paper_id |-> paper_list[i].paper_id,
                  core_idea |-> paper_list[i].core_idea,
                  sim |-> _compute_text_similarity(query, paper_list[i].core_idea),
                  key |-> _compute_text_similarity(query, paper_list[i].core_idea)
                            * PaperQuality(paper_list[i].ratings)]],
              LAMBDA x : /\ x.core_idea # <<>>
                         /\ x.sim > PATH3_MIN_SIMILARITY
                         /\ HasNode(graph, x.paper_id)))

_recall_path3_similar_papers(query, paper_list, graph) ==
  LET top_papers == Slice(SimilarPapers(query, paper_list, graph), 0, PATH3_TOP_K_PAPERS)
  IN Accumulated(
       UNION { { [paper |-> i, pattern |-> e.target,
                  score |-> top_papers[i].key * e.quality] :
                   e \in OutEdges(graph, top_papers[i].paper_id, "uses_pattern") } :
               i \in { k \in 1..Len(top_papers) : HasNode(graph, top_papers[k].paper_id) } })

(***************************************************************************)
(* The recall inlined in main() of idea2story_pipeline.py: the constants   *)
(* and the character-level similarity of simple_recall_demo.py.            *)
(***************************************************************************)
Variants == {"recall_system", "main"}

\* TOP_K_IDEAS, TOP_K_DOMAINS, TOP_K_PAPERS, FINAL_TOP_K and the path weights
\* (tenths) of simple_recall_demo.py
TOP_K_IDEAS == 10
TOP_K_DOMAINS == 5
TOP_K_PAPERS == 20
demo_FINAL_TOP_K == 10
demo_PATH1_WEIGHT == 4
demo_PATH2_WEIGHT == 2
demo_PATH3_WEIGHT == 4

\* similarities of path 1 in main(), sorted, most similar first
main_similar_ideas(query, idea_list) ==
  SortByKeyDesc(
    SelectSeq([i \in 1..Len(idea_list) |->
                 [idea |-> idea_list[i],
                  key |-> compute_similarity(query, idea_list[i].description)]],
              LAMBDA x : IdeaIsSimilar(x.key)))

\* path 1 of main(): every pattern of idea['pattern_ids'] gets the similarity
main_path1_scores(query, idea_list) ==
  LET top_ideas == Slice(main_similar_ideas(query, idea_list), 0, TOP_K_IDEAS)
  IN Accumulated(
       UNION { { [idea |-> i, k |-> k, pattern |-> top_ideas[i].idea.pattern_ids[k],
                  score |-> top_ideas[i].key * 100] :
                   k \in 1..Len(top_ideas[i].idea.pattern_ids) } :
               i \in 1..Len(top_ideas) })

\* path 2 of main(): the domains of the most similar idea, when it is a node
main_domain_edges(query, idea_list, graph) ==
  LET top_ideas == Slice(main_similar_ideas(query, idea_list), 0, TOP_K_IDEAS)
  IN IF top_ideas # <<>> /\ HasNode(graph, top_ideas[1].idea.idea_id)
     THEN OutEdges(graph, top_ideas[1].idea.idea_id, "belongs_to")
     ELSE {}

\* paper.get('idea', {}).get('core_idea', '') or paper.get('abstract', '')[:100]
main_paper_idea(paper) ==
  IF paper.core_idea # <<>> THEN paper.core_idea ELSE Slice(paper.abstract, 0, 100)

main_similar_papers(query, paper_list, graph) ==
  SortByKeyDesc(
    SelectSeq([i \in 1..Len(paper_list) |->
                 [paper_id |-> paper_list[i].paper_id,
                  paper_idea |-> main_paper_idea(paper_list[i]),
                  sim |-> compute_similarity(query, main_paper_idea(paper_list[i])),
                  key |-> compute_similarity(query, main_paper_idea(paper_list[i]))
                            * PaperQuality(paper_list[i].ratings)]],
              LAMBDA x : /\ x.paper_idea # <<>>
                         /\ x.sim > PATH3_MIN_SIMILARITY
                         /\ HasNode(graph, x.paper_id)))

main_path3_scores(query, paper_list, graph) ==
  LET top_papers == Slice(main_similar_papers(query, paper_list, graph), 0, TOP_K_PAPERS)
  IN Accumulated(
       UNION { { [paper |-> i, pattern |-> e.target,
                  score |-> top_papers[i].key * e.quality] :
                   e \in OutEdges(graph, top_papers[i].paper_id, "uses_pattern") } :
               i \in { k \in 1..Len(top_papers) : HasNode(graph, top_papers[k].paper_id) } })

\* the path weights and the final Top-K of a variant
Weights(v) ==
  IF v = "main" THEN <<demo_PATH1_WEIGHT, demo_PATH2_WEIGHT, demo_PATH3_WEIGHT>>
  ELSE <<PATH1_WEIGHT, PATH2_WEIGHT, PATH3_WEIGHT>>

FinalTopK(v) == IF v = "main" THEN demo_FINAL_TOP_K ELSE FINAL_TOP_K

\* the fusion leaving path 3 out
FusedScoreWithoutPath3(pid, p1, p2, p3, w) ==
  (IF pid \in DOMAIN p1 THEN p1[pid] ELSE 0) * w[1]
  + (IF pid \in DOMAIN p2 THEN p2[pid] ELSE 0) * w[2]

\* final_scores[pattern_id] of the fusion
FusedScore(pid, p1, p2, p3, w) ==
  (IF pid \in DOMAIN p1 THEN p1[pid] ELSE 0) * w[1]
  + (IF pid \in DOMAIN p2 THEN p2[pid] ELSE 0) * w[2]
  + (IF pid \in DOMAIN p3 THEN p3[pid] ELSE 0) * w[3]

\* all orders in which a set can be iterated
Orders(S) ==
  {o \in [1..Cardinality(S) -> S] : \A i, j \in 1..Cardinality(S) : i # j => o[i] # o[j]}

\* the pattern ids of the model
PatternIds ==
  <<"pattern_1", "pattern_2", "pattern_3", "pattern_4", "pattern_5", "pattern_6",
    "pattern_7", "pattern_8", "pattern_9", "pattern_10", "pattern_11", "pattern_12">>

Reverse(s) == [i \in 1..Len(s) |-> s[Len(s) + 1 - i]]

\* The orders in which `for pattern_id in all_patterns' can visit a set of
\* strings.  The order follows the string hashes, which change from one
\* process to the next: every order for a set of up to MaxShuffled ids, and
\* for a larger set four orders that differ on every pair of ids.
IterationOrders(S) ==
  IF Cardinality(S) <= MaxShuffled THEN Orders(S)
  ELSE LET asc == SelectSeq(PatternIds, LAMBDA p : p \in S)
           half == Len(asc) \div 2
           rotated == SubSeq(asc, half + 1, Len(asc)) \o SubSeq(asc, 1, half)
       IN {asc, Reverse(asc), rotated, Reverse(rotated)}

\* the fusion without its sort
RankedUnsorted(order, p1, p2, p3, v) ==
  Slice([i \in 1..Len(order) |->
           [pattern_id |-> order[i],
            score |-> FusedScore(order[i], p1, p2, p3, Weights(v))]],
        0, FinalTopK(v))

\* sorted(final_scores.items(), reverse=True)[:FINAL_TOP_K] when all_patterns
\* is iterated in the given order
Ranked(order, p1, p2, p3, v) ==
  LET items == SortByKeyDesc([i \in 1..Len(order) |->
                 [pattern_id |-> order[i],
                  key |-> FusedScore(order[i], p1, p2, p3, Weights(v))]])
  IN Slice([i \in 1..Len(items) |->
              [pattern_id |-> items[i].pattern_id, score |-> items[i].key]],
           0, FinalTopK(v))

\* the ids of a sequence
Range(s) == {s[i] : i \in 1..Len(s)}

(***************************************************************************)
(* Inputs of the recall: a query, two ideas, three papers, two domains and *)
(* a graph over them from which nodes and edges may be missing.            *)
(***************************************************************************)
QueryTexts ==
  { <<>>, <<" ">>, <<"a">>, <<"A", " ", "b">>, <<"d">> }

IdeaDescriptions == { <<"a", " ", "B">>, <<>> }

IdeaLists ==
  { << [idea_id |-> "idea_1", description |-> d, source_paper_ids |-> <<"paper_1">>,
        pattern_ids |-> <<"pattern_1", "pattern_2">>],
       [idea_id |-> "idea_2", description |-> <<"b", " ", "c">>,
        source_paper_ids |-> <<"paper_1", "paper_2">>,
        pattern_ids |-> <<"pattern_1", "pattern_2">>] >> : d \in IdeaDescriptions }

PaperList ==
  << [paper_id |-> "paper_1", core_idea |-> <<"a", " ", "b", " ", "c">>,
      abstract |-> <<"a", " ", "b">>, ratings |-> <<10>>],
     [paper_id |-> "paper_2", core_idea |-> <<"a">>, abstract |-> <<>>, ratings |-> <<1, 10>>],
     [paper_id |-> "paper_3", core_idea |-> <<>>, abstract |-> <<"d">>, ratings |-> <<>>] >>

DomainList ==
  << [domain_id |-> "domain_1", name |-> <<"a">>],
     [domain_id |-> "domain_2", name |-> <<"c", " ", "d">>] >>

AllNodes ==
  {"idea_1", "idea_2", "paper_1", "paper_2", "paper_3", "domain_1", "domain_2",
   "pattern_1", "pattern_2", "pattern_3"}

\* sets of nodes that may be missing from the graph
AbsentNodes == { {}, {"paper_2"}, {"idea_1"}, {"domain_1"} }

BaseEdges ==
  { [source |-> "paper_1", target |-> "pattern_1", relation |-> "uses_pattern", quality |-> 8],
    [source |-> "paper_1", target |-> "pattern_2", relation |-> "uses_pattern", quality |-> 8],
    [source |-> "paper_2", target |-> "pattern_2", relation |-> "uses_pattern", quality |-> 5],
    [source |-> "paper_3", target |-> "pattern_3", relation |-> "uses_pattern", quality |-> 5],
    [source |-> "idea_1", target |-> "domain_1", relation |-> "belongs_to", weight |-> SimScale],
    [source |-> "idea_2", target |-> "domain_1", relation |-> "belongs_to",
     weight |-> SimScale \div 2],
    [source |-> "idea_2", target |-> "domain_2", relation |-> "belongs_to",
     weight |-> SimScale \div 2],
    [source |-> "pattern_1", target |-> "domain_1", relation |-> "works_well_in",
     effectiveness |-> -2, confidence |-> 5],
    [source |-> "pattern_3", target |-> "domain_2", relation |-> "works_well_in",
     effectiveness |-> 3, confidence |-> 10] }

\* the graphs: some nodes absent, at most one further edge left out
Graphs ==
  { [nodes |-> AllNodes \ absent,
     edges |-> {e \in BaseEdges \ dropped :
                  e.source \notin absent /\ e.target \notin absent}] :
      absent \in AbsentNodes,
      dropped \in {{}} \cup {{e} : e \in BaseEdges} }

RecallIdle ==
  /\ rpc = "idle"
  /\ user_idea = <<>>
  /\ ideas = <<>>
  /\ papers = <<>>
  /\ domains = <<>>
  /\ G = [nodes |-> {}, edges |-> {}]
  /\ path1_scores = Unset
  /\ path2_scores = Unset
  /\ path3_scores = Unset
  /\ results = Unset
  /\ variant = "recall_system"
  /\ discovery = <<>>

RecallEntered ==
  /\ rpc = "path1"
  /\ variant \in Variants
  /\ discovery = <<>>
  /\ user_idea \in QueryTexts
  /\ ideas \in IdeaLists
  /\ papers = PaperList
  /\ domains = DomainList
  /\ G \in Graphs
  /\ path1_scores = Unset
  /\ path2_scores = Unset
  /\ path3_scores = Unset
  /\ results = Unset

\* a path returns its scores; the patterns it scores for the first time are
\* discovered in the order the path met them
Discovered(scores) ==
  {discovery \o o : o \in Orders(DOMAIN scores \ Range(discovery))}

RecallPath1 ==
  /\ rpc = "path1"
  /\ LET scores == IF variant = "main"
                   THEN main_path1_scores(user_idea, ideas)
                   ELSE _recall_path1_similar_ideas(user_idea, ideas, G)
     IN /\ path1_scores' = scores
        /\ discovery' \in Discovered(scores)
  /\ rpc' = "path2"
  /\ UNCHANGED <<recallInputs, path2_scores, path3_scores, results>>
  /\ UNCHANGED outsideRecall

\* path 2 of RecallSystem; G.successors and G.predecessors raise for a node
\* that is not in G
RecallPath2 ==
  /\ rpc = "path2"
  /\ variant = "recall_system"
  /\ LET matched == MatchedDomains(user_idea, domains)
         top_idea == FallbackIdea(user_idea, ideas)
         use_fallback == matched = <<>> /\ top_idea # <<>>
     IN IF use_fallback /\ ~HasNode(G, top_idea[1].idea.idea_id)
        THEN /\ rpc' = "raised"
             /\ UNCHANGED <<path2_scores, discovery>>
        ELSE \E order \in Orders(IF use_fallback
                                 THEN FallbackDomainEdges(G, top_idea[1].idea)
                                 ELSE {}) :
               LET domain_scores ==
                     IF use_fallback
                     THEN [i \in 1..Len(order) |->
                             [domain_id |-> order[i].target, key |-> order[i].weight]]
                     ELSE matched
                   top_domains == KnownTopDomains(domain_scores, domains)
               IN IF \E i \in 1..Len(top_domains) : ~HasNode(G, top_domains[i].domain_id)
                  THEN /\ rpc' = "raised"
                       /\ UNCHANGED <<path2_scores, discovery>>
                  ELSE /\ path2_scores' = DomainPatternScores(top_domains, G)
                       /\ discovery' \in Discovered(DomainPatternScores(top_domains, G))
                       /\ rpc' = "path3"
  /\ UNCHANGED <<recallInputs, path1_scores, path3_scores, results>>
  /\ UNCHANGED outsideRecall

\* path 2 of main(): the belongs_to domains of the most similar idea
MainPath2 ==
  /\ rpc = "path2"
  /\ variant = "main"
  /\ \E order \in Orders(main_domain_edges(user_idea, ideas, G)) :
       LET domain_scores == [i \in 1..Len(order) |->
                               [domain_id |-> order[i].target, key |-> order[i].weight]]
           top_domains == Slice(SortByKeyDesc(domain_scores), 0, TOP_K_DOMAINS)
       IN /\ path2_scores' = DomainPatternScores(top_domains, G)
          /\ discovery' \in Discovered(DomainPatternScores(top_domains, G))
  /\ rpc' = "path3"
  /\ UNCHANGED <<recallInputs, path1_scores, path3_scores, results>>
  /\ UNCHANGED outsideRecall

RecallPath3 ==
  /\ rpc = "path3"
  /\ LET scores == IF variant = "main"
                   THEN main_path3_scores(user_idea, papers, G)
                   ELSE _recall_path3_similar_papers(user_idea, papers, G)
     IN /\ path3_scores' = scores
        /\ discovery' \in Discovered(scores)
  /\ rpc' = "fuse"
  /\ UNCHANGED <<recallInputs, path1_scores, path2_scores, results>>
  /\ UNCHANGED outsideRecall

\* the fusion; all_patterns is a set, iterated in an order the code does not fix
Fuse ==
  /\ rpc = "fuse"
  /\ \E order \in IterationOrders(DOMAIN path1_scores \cup DOMAIN path2_scores
                                    \cup DOMAIN path3_scores) :
       results' = Ranked(order, path1_scores, path2_scores, path3_scores, variant)
  /\ rpc' = "returned"
  /\ UNCHANGED <<recallInputs, path1_scores, path2_scores, path3_scores, discovery>>
  /\ UNCHANGED outsideRecall

RecallInit == PipelineIdle /\ RecallEntered /\ BuilderIdle /\ VerifierIdle /\ TypedIdle /\ EditorIdle

RecallNext ==
  \/ RecallPath1
  \/ RecallPath2
  \/ MainPath2
  \/ RecallPath3
  \/ Fuse

RecallSpec == RecallInit /\ [][RecallNext]_vars

(***************************************************************************)
(* EdgeBuilder of build_edges.py: the belongs_to and works_well_in edges.  *)
(* Papers are numbered; a paper holds the names of its domains, the ids of *)
(* its patterns and the quality _get_paper_quality gives it (tenths).      *)
(* A ratio is kept exactly, as [num, den].                                 *)
(***************************************************************************)
\* most papers the builder is given
MaxBuilderPapers == 21

\* the frequency at which `confidence = min(frequency / 20, 1.0)' reaches 1
FULL_CONFIDENCE_FREQUENCY == 20

\* the baseline (tenths) of a domain without papers
DEFAULT_BASELINE == 7

\* self.domain_name_to_id.get(name): a domain id, or "" for an unknown name
domain_name_to_id(name) ==
  CASE name = "NLP" -> "domain_1"
    [] name = "CV" -> "domain_2"
    [] OTHER -> ""

\* the names of self.domains
BuilderDomainNames == {"NLP", "CV"}

\* paper.get('domains', []) of the first two papers
PaperDomainLists == { <<>>, <<"NLP">>, <<"CV">>, <<"NLP", "CV">>, <<"Robotics">> }

\* idea.get('source_paper_ids', []); paper 0 has no record
SourcePaperLists == { <<>>, <<1>>, <<1, 2>>, <<2, 0>>, <<1, 2, 3>> }

\* the papers: the first two with the given domains, every further one a
\* paper of NLP that uses pattern_1
BuilderPapers(n, doms1, doms2, q) ==
  [i \in 1..n |->
     [paper_id |-> i,
      domains |-> IF i = 1 THEN doms1 ELSE IF i = 2 THEN doms2 ELSE <<"NLP">>,
      pattern_ids |-> IF i = 1 THEN <<"pattern_1", "pattern_2">> ELSE <<"pattern_1">>,
      quality |-> IF i = 1 THEN q ELSE 5]]

BuilderPatterns == <<"pattern_1", "pattern_2">>

\* self.paper_id_to_paper.get(paper_id): a sequence holding the record, empty for None
PaperRecord(paper_list, paper_id) == SelectSeq(paper_list, LAMBDA p : p.paper_id = paper_id)

\* the entries of a list of domain names that name the domain
NamedIn(domain_names, domain_id) ==
  {k \in 1..Len(domain_names) : domain_name_to_id(domain_names[k]) = domain_id}

\* domain_counts[domain_id] of an idea
DomainCount(idea, paper_list, domain_id) ==
  LET per(j) == LET rec == PaperRecord(paper_list, idea.source_paper_ids[j])
                IN IF rec = <<>> THEN 0
                   ELSE Cardinality(NamedIn(rec[1].domains, domain_id))
  IN SumOf(1..Len(idea.source_paper_ids), [j \in 1..Len(idea.source_paper_ids) |-> per(j)])

\* total_papers counted over the source papers that have a record only
TotalPapersKnown(idea, paper_list) ==
  Cardinality({j \in 1..Len(idea.source_paper_ids) :
                 PaperRecord(paper_list, idea.source_paper_ids[j]) # <<>>})

\* total_papers = len(source_paper_ids)
TotalPapers(idea, paper_list) == Len(idea.source_paper_ids)

BuilderDomainIds == {domain_name_to_id(name) : name \in BuilderDomainNames}

_build_idea_belongs_to_domain_edges(idea_list, paper_list) ==
  UNION { { [source |-> idea_list[i].idea_id, target |-> d, relation |-> "belongs_to",
               weight |-> [num |-> DomainCount(idea_list[i], paper_list, d),
                           den |-> TotalPapers(idea_list[i], paper_list)],
               paper_count |-> DomainCount(idea_list[i], paper_list, d),
               total_papers |-> TotalPapers(idea_list[i], paper_list)] :
                d \in {x \in BuilderDomainIds :
                         DomainCount(idea_list[i], paper_list, x) > 0} } :
          i \in {k \in 1..Len(idea_list) : idea_list[k].source_paper_ids # <<>>} }

\* stats['papers'] of a pattern in a domain: one entry for every naming of
\* the domain by a paper that uses the pattern
PatternDomainEntries(paper_list, pid, domain_id) ==
  UNION { { <<i, k>> : k \in NamedIn(paper_list[i].domains, domain_id) } :
          i \in {j \in 1..Len(paper_list) : pid \in Range(paper_list[j].pattern_ids)} }

\* the papers whose 'domains' hold the name of the domain
DomainPapers(paper_list, domain_name) ==
  {i \in 1..Len(paper_list) : domain_name \in Range(paper_list[i].domains)}

\* confidence without the cap
ConfidenceUncapped(frequency) == frequency

\* min(frequency / 20, 1.0), in units of 1/20
Confidence(frequency) ==
  IF frequency <= FULL_CONFIDENCE_FREQUENCY THEN frequency ELSE FULL_CONFIDENCE_FREQUENCY

\* the works_well_in edge of a pattern and a domain
WorksWellInEdge(paper_list, pid, name) ==
  LET entries == PatternDomainEntries(paper_list, pid, domain_name_to_id(name))
      quality == [i \in 1..Len(paper_list) |-> paper_list[i].quality]
      sum_q == SumOf(entries, [e \in entries |-> quality[e[1]]])
      domain_papers == DomainPapers(paper_list, name)
      sum_b == SumOf(domain_papers, quality)
      n_b == Cardinality(domain_papers)
      frequency == Cardinality(entries)
  IN [source |-> pid, target |-> domain_name_to_id(name),
      relation |-> "works_well_in",
      frequency |-> frequency,
      \* avg_quality - domain_baseline
      effectiveness |->
        IF n_b = 0 THEN [num |-> sum_q - DEFAULT_BASELINE * frequency, den |-> frequency]
        ELSE [num |-> sum_q * n_b - sum_b * frequency, den |-> frequency * n_b],
      confidence |-> Confidence(frequency)]

_build_pattern_works_well_in_domain_edges(paper_list) ==
  { WorksWellInEdge(paper_list, pn[1], pn[2]) :
      pn \in { x \in Range(BuilderPatterns) \X BuilderDomainNames :
                 PatternDomainEntries(paper_list, x[1], domain_name_to_id(x[2])) # {} } }

\* after __init__ and the loading of the node files
BuilderEntered ==
  /\ bpc = "belongs_to"
  /\ \E src1 \in SourcePaperLists :
       builder_ideas = << [idea_id |-> "idea_1", source_paper_ids |-> src1],
                          [idea_id |-> "idea_2", source_paper_ids |-> <<2>>] >>
  /\ \E n \in 1..MaxBuilderPapers, doms1 \in PaperDomainLists,
        doms2 \in PaperDomainLists, q \in {0, 10} :
       builder_papers = BuilderPapers(n, doms1, doms2, q)
  /\ builder_G = {}

BuildIdeaBelongsTo ==
  /\ bpc = "belongs_to"
  /\ builder_G' = builder_G
                    \cup _build_idea_belongs_to_domain_edges(builder_ideas, builder_papers)
  /\ bpc' = "works_well_in"
  /\ UNCHANGED <<builder_ideas, builder_papers>>
  /\ UNCHANGED outsideBuilder

BuildPatternWorksWellIn ==
  /\ bpc = "works_well_in"
  /\ builder_G' = builder_G \cup _build_pattern_works_well_in_domain_edges(builder_papers)
  /\ bpc' = "done"
  /\ UNCHANGED <<builder_ideas, builder_papers>>
  /\ UNCHANGED outsideBuilder

BuilderInit == PipelineIdle /\ RecallIdle /\ BuilderEntered /\ VerifierIdle /\ TypedIdle /\ EditorIdle

BuilderNext ==
  \/ BuildIdeaBelongsTo
  \/ BuildPatternWorksWellIn

BuilderSpec == BuilderInit /\ [][BuilderNext]_vars

(***************************************************************************)
(* RAGVerifier.verify on texts.  A similarity is kept exactly, as the      *)
(* ratio [num, den] of the Jaccard index.                                  *)
(***************************************************************************)
\* `for paper in self.papers[:50]'
VERIFY_SAMPLE_SIZE == 50

\* `if similarity > 0.3', in hundredths
SIMILAR_PAPER_THRESHOLD == 30

\* RAGVerifier._compute_similarity
_compute_similarity(text1, text2) ==
  LET tokens1 == Tokens(text1)
      tokens2 == Tokens(text2)
  IN IF tokens1 = {} \/ tokens2 = {} THEN [num |-> 0, den |-> 1]
     ELSE [num |-> Cardinality(tokens1 \cap tokens2),
           den |-> Cardinality(tokens1 \cup tokens2)]

\* similarity > hundredths / 100
AboveHundredths(similarity, hundredths) == similarity.num * 100 > hundredths * similarity.den

\* max(a, b) of two similarities
MaxSimilarity(a, b) == IF b.num * a.den > a.num * b.den THEN b ELSE a

\* the papers verify looks at, one short of the sample
SampledPapersButLast(paper_list) == Slice(paper_list, 0, VERIFY_SAMPLE_SIZE - 1)

\* self.papers[:50]
SampledPapers(paper_list) == Slice(paper_list, 0, VERIFY_SAMPLE_SIZE)

\* similar_papers before the sort: the sampled papers that have a method
\* story more than 0.3 similar to the draft's
SimilarSampled(method, paper_list) ==
  SelectSeq([i \in 1..Len(SampledPapers(paper_list)) |->
               [paper_id |-> paper_list[i].paper_id,
                method_story |-> paper_list[i].method_story,
                similarity |-> _compute_similarity(method, paper_list[i].method_story)]],
            LAMBDA x : /\ x.method_story # <<>>
                       /\ AboveHundredths(x.similarity, SIMILAR_PAPER_THRESHOLD))

RECURSIVE MaxOf(_)
MaxOf(similar) ==
  IF similar = <<>> THEN [num |-> 0, den |-> 1]
  ELSE MaxSimilarity(MaxOf(SubSeq(similar, 1, Len(similar) - 1)),
                     similar[Len(similar)].similarity)

\* similar_papers.sort(key=similarity, reverse=True): stable, descending
RECURSIVE InsertBySimilarityDesc(_, _)
InsertBySimilarityDesc(sorted, x) ==
  IF sorted = <<>> THEN <<x>>
  ELSE LET last == sorted[Len(sorted)]
       IN IF last.similarity.num * x.similarity.den >= x.similarity.num * last.similarity.den
          THEN Append(sorted, x)
          ELSE Append(InsertBySimilarityDesc(SubSeq(sorted, 1, Len(sorted) - 1), x), last)

RECURSIVE SortBySimilarityDesc(_)
SortBySimilarityDesc(similar) ==
  IF similar = <<>> THEN <<>>
  ELSE InsertBySimilarityDesc(SortBySimilarityDesc(SubSeq(similar, 1, Len(similar) - 1)),
                              similar[Len(similar)])

verify_texts(method, paper_list) ==
  LET similar == SimilarSampled(method, paper_list)
      max_similarity == MaxOf(similar)
      collision_detected == AboveHundredths(max_similarity, COLLISION_THRESHOLD)
      top_similar == Slice(SortBySimilarityDesc(similar), 0, 3)
  IN [pass |-> ~collision_detected,
      collision_detected |-> collision_detected,
      similar_papers |-> [i \in 1..Len(top_similar) |-> top_similar[i].paper_id],
      max_similarity |-> max_similarity]

\* method descriptions of a draft
MethodTexts ==
  { <<>>, <<" ">>, <<"a">>, <<"A", " ", "b">>, <<"a", " ", "b", " ", "c", " ", "d">> }

\* method stories of a paper
PaperMethodTexts ==
  MethodTexts \cup { <<"z">>, <<"a", " ", "b">>, <<"a", " ", "b", " ", "c">> }

\* n papers of the same method story, then two papers
VerifierPapers(n, filler, story1, story2) ==
  [i \in 1..(n + 2) |->
     [paper_id |-> i,
      method_story |-> IF i <= n THEN filler ELSE IF i = n + 1 THEN story1 ELSE story2]]

VerifierEntered ==
  /\ vpc = "verify"
  /\ method_skeleton \in MethodTexts
  /\ \E n \in {0, VERIFY_SAMPLE_SIZE - 2, VERIFY_SAMPLE_SIZE - 1, VERIFY_SAMPLE_SIZE},
        filler \in {<<>>, <<"z">>}, story1 \in PaperMethodTexts, story2 \in PaperMethodTexts :
       verifier_papers = VerifierPapers(n, filler, story1, story2)
  /\ verifier_result = [unset |-> TRUE]

VerifyTexts ==
  /\ vpc = "verify"
  /\ verifier_result' = verify_texts(method_skeleton, verifier_papers)
  /\ vpc' = "returned"
  /\ UNCHANGED <<method_skeleton, verifier_papers>>
  /\ UNCHANGED outsideVerifier

VerifierInit == PipelineIdle /\ RecallIdle /\ BuilderIdle /\ VerifierEntered /\ TypedIdle /\ EditorIdle

VerifierNext == VerifyTexts

VerifierSpec == VerifierInit /\ [][VerifierNext]_vars

(***************************************************************************)
(* run() on LLM responses of any shape (idea2story_pipeline.py)            *)
(*                                                                         *)
(* A response is empty, text without a JSON object, an object that cannot  *)
(* be repaired, or a JSON object.  A field of a JSON object is modelled by *)
(* the Python type of its value ("absent" when the key is missing); values *)
(* of a present type are non-empty.                                        *)
(***************************************************************************)
JsonTypes == {"str", "list", "dict", "number", "null", "absent"}

ResponseKinds == {"empty", "non_json", "unrepairable", "json"}

\* what call_llm can return to StoryGenerator.generate
StoryResponses ==
  {[kind |-> k, abstract |-> "absent", innovation_claims |-> "absent"] :
     k \in ResponseKinds \ {"json"}}
    \cup {[kind |-> "json", abstract |-> a, innovation_claims |-> c] :
            a \in {"str", "number", "absent"}, c \in JsonTypes}

\* the score a reviewer response can carry, in tenths
ResponseScores == {80}

\* what call_llm can return to MultiAgentCritic._single_review; outside a
\* JSON object score_type says whether a number follows "score" in the text
CriticResponses ==
  {[kind |-> "empty", score_type |-> "absent", score |-> 0, feedback |-> "absent"]}
    \cup {[kind |-> k, score_type |-> "number", score |-> n, feedback |-> "str"] :
            k \in {"non_json", "unrepairable"}, n \in ResponseScores}
    \cup {[kind |-> "json", score_type |-> "number", score |-> n, feedback |-> f] :
            n \in ResponseScores, f \in {"str", "number", "absent"}}
    \cup {[kind |-> "json", score_type |-> t, score |-> 0, feedback |-> "number"] :
            t \in {"null", "absent"}}

\* call_llm returned "": the request failed (lines 83-85)
CallFailed(response) == response.kind = "empty"

\* the score both parsers fall back to
DEFAULT_SCORE == 50

\* dict.get(key, default) on field types; "null" is a key holding None
Get(record, key, default) == IF record[key] = "absent" THEN default ELSE record[key]

\* bool(value) for a field type
Truthy(type) == type \notin {"absent", "null"}

\* `for x in value' does not raise
Iterable(type) == type \in {"str", "list", "dict"}

\* `value[:n]' does not raise
Sliceable(type) == type \in {"str", "list"}

\* bool(story) for a story dict: an empty dict is false
TruthyStory(story) == story # NoneValue /\ \E key \in DOMAIN story : story[key] # "absent"

_default_story == [abstract |-> "str", innovation_claims |-> "list"]

\* a fallback that returns a dict without fields
_fallback_parse_empty(response) == [abstract |-> "absent", innovation_claims |-> "absent"]

\* the regular expressions only ever extract strings and lists of strings
_fallback_parse_story(response) == _default_story

_parse_story_response(response) ==
  IF response.kind = "json"
  THEN [abstract |-> response.abstract, innovation_claims |-> response.innovation_claims]
  ELSE _fallback_parse_story(response)

\* whether _build_refinement_prompt raises: review['feedback'][:250]
_build_refinement_prompt_raises(review_feedback) ==
  \E i \in 1..Len(review_feedback.reviews) : ~Sliceable(review_feedback.reviews[i].feedback)

\* the refinement mode's merge of the previous story into the parsed one
MergePrevious(story, previous_story) ==
  LET restored == [key \in DOMAIN story |->
                     IF Truthy(story[key]) THEN story[key]
                     ELSE Get(previous_story, key, "null")]
  IN [restored EXCEPT !.innovation_claims =
        IF restored.innovation_claims = "list" THEN "list"
        ELSE Get(previous_story, "innovation_claims", "list")]

\* whether _print_story raises: for claim in story.get('innovation_claims', [])
_print_story_raises(story) == ~Iterable(Get(story, "innovation_claims", "list"))

Raised(function) == [raised |-> TRUE, at |-> function, story |-> NoneValue]

\* StoryGenerator.generate on field types
generate_typed(previous_story, review_feedback, response) ==
  LET refinement == TruthyStory(previous_story) /\ review_feedback # NoneValue
      parsed == _parse_story_response(response)
      story == IF TruthyStory(previous_story) THEN MergePrevious(parsed, previous_story)
               ELSE parsed
  IN IF refinement /\ _build_refinement_prompt_raises(review_feedback)
     THEN Raised("_build_refinement_prompt")
     ELSE IF _print_story_raises(story) THEN Raised("_print_story")
     ELSE [raised |-> FALSE, at |-> "", story |-> story]

\* MultiAgentCritic._single_review: the JSON path when float() succeeds,
\* else the regular-expression fallback
_single_review_typed(response) ==
  IF response.kind = "json" /\ response.score_type \in {"number", "absent"}
  THEN [score |-> IF response.score_type = "number" THEN response.score ELSE DEFAULT_SCORE,
        feedback |-> Get(response, "feedback", "str")]
  ELSE [score |-> IF response.score_type = "number" THEN response.score ELSE DEFAULT_SCORE,
        feedback |-> "str"]

\* MultiAgentCritic.review on three responses
review_typed(responses) ==
  LET reviews == [i \in 1..Len(responses) |-> _single_review_typed(responses[i])]
  IN [pass |-> Passed([i \in 1..Len(reviews) |-> reviews[i].score]), reviews |-> reviews]

\* whether the closing summary of run() raises: current_story.get('abstract', '')[:100]
FinalSummaryRaises(story) == ~Sliceable(Get(story, "abstract", "str"))

TypedEntered ==
  /\ tpc = "generate"
  /\ typed_story = NoneValue
  /\ typed_review = NoneValue
  /\ typed_iterations = 0
  /\ raised_at = ""
  /\ all_failed = TRUE

\* what an action does with the outcome of a generate call
AfterGenerate(outcome, next_position) ==
  IF outcome.raised
  THEN /\ tpc' = "raised"
       /\ raised_at' = outcome.at
       /\ UNCHANGED typed_story
  ELSE /\ tpc' = next_position
       /\ typed_story' = outcome.story
       /\ UNCHANGED raised_at

\* Phase 2: the initial generation
TypedInitialGenerate ==
  /\ tpc = "generate"
  /\ \E response \in StoryResponses :
       /\ AfterGenerate(generate_typed(NoneValue, NoneValue, response), "review")
       /\ all_failed' = (all_failed /\ CallFailed(response))
  /\ UNCHANGED <<typed_review, typed_iterations>>
  /\ UNCHANGED outsideTyped

\* Phase 3: one review of the loop; the prompt of _single_review iterates
\* the innovation claims
TypedReview ==
  /\ tpc = "review"
  /\ typed_iterations' = typed_iterations + 1
  /\ IF _print_story_raises(typed_story)
     THEN /\ tpc' = "raised"
          /\ raised_at' = "_single_review"
          /\ UNCHANGED <<typed_review, all_failed>>
     ELSE \E r1 \in CriticResponses, r2 \in CriticResponses, r3 \in CriticResponses :
            LET critic_result == review_typed(<<r1, r2, r3>>)
            IN /\ typed_review' = critic_result
               /\ tpc' = IF critic_result.pass THEN "verify" ELSE "refine"
               /\ all_failed' = (all_failed /\ CallFailed(r1) /\ CallFailed(r2)
                                  /\ CallFailed(r3))
               /\ UNCHANGED raised_at
  /\ UNCHANGED typed_story
  /\ UNCHANGED outsideTyped

\* Phase 3.5: the generation that follows a failed review
TypedRefine ==
  /\ tpc = "refine"
  /\ \E response \in StoryResponses :
       /\ AfterGenerate(generate_typed(typed_story, typed_review, response),
                        IF typed_iterations < MAX_REFINE_ITERATIONS THEN "review"
                        ELSE "verify")
       /\ all_failed' = (all_failed /\ CallFailed(response))
  /\ UNCHANGED <<typed_review, typed_iterations>>
  /\ UNCHANGED outsideTyped

\* the end of run(): the summary is printed and the result returned
Finish(story) ==
  IF FinalSummaryRaises(story)
  THEN /\ tpc' = "raised"
       /\ raised_at' = "run"
  ELSE /\ tpc' = "returned"
       /\ UNCHANGED raised_at

\* Phase 4 without a collision
TypedVerify ==
  /\ tpc = "verify"
  /\ \E collision_detected \in BOOLEAN :
       IF collision_detected
       THEN /\ tpc' = "pivot"
            /\ UNCHANGED raised_at
       ELSE Finish(typed_story)
  /\ UNCHANGED <<typed_story, typed_review, typed_iterations, all_failed>>
  /\ UNCHANGED outsideTyped

\* Phase 4 after a collision: the pivot generation, and the end of run()
TypedPivot ==
  /\ tpc = "pivot"
  /\ \E response \in StoryResponses :
       LET outcome == generate_typed(NoneValue, NoneValue, response)
       IN /\ all_failed' = (all_failed /\ CallFailed(response))
          /\ IF outcome.raised
             THEN /\ tpc' = "raised"
                  /\ raised_at' = outcome.at
                  /\ UNCHANGED typed_story
             ELSE /\ typed_story' = outcome.story
                  /\ Finish(outcome.story)
  /\ UNCHANGED <<typed_review, typed_iterations>>
  /\ UNCHANGED outsideTyped

TypedInit == PipelineIdle /\ RecallIdle /\ BuilderIdle /\ VerifierIdle /\ TypedEntered /\ EditorIdle

TypedNext ==
  \/ TypedInitialGenerate
  \/ TypedReview
  \/ TypedRefine
  \/ TypedVerify
  \/ TypedPivot

TypedSpec == TypedInit /\ [][TypedNext]_vars

(***************************************************************************)
(* StoryGenerator.generate in editor mode, on field values                 *)
(*                                                                         *)
(* A field value is "absent" (no such key), "None", "" (an empty string or *)
(* list), "old" (the previous draft's text), "new" (text of the response), *)
(* "stub" (text of _default_story), "dict" and "joined" (a dict-valued     *)
(* method_skeleton and its joined string), "scalar" (a non-list            *)
(* innovation_claims) or "bad" (a list holding a placeholder name).        *)
(***************************************************************************)
StoryKeys ==
  {"title", "abstract", "problem_definition", "method_skeleton",
   "innovation_claims", "experiments_plan"}

\* the stage of _parse_story_response that produces the story
ParsingStages == {"direct", "repaired", "fallback", "stub"}

\* values a key of a JSON response can hold
ResponseValues(key) ==
  CASE key = "method_skeleton" -> {"absent", "", "new", "dict"}
    [] key = "innovation_claims" -> {"absent", "", "new", "scalar", "bad"}
    [] OTHER -> {"absent", "", "new"}

\* responses: a JSON object (parsed directly or after repair), text from
\* which the regular expressions extract some fields, text with none
EditorResponses ==
  {[stage |-> st, fields |-> f] :
     st \in {"direct", "repaired"},
     f \in {g \in [StoryKeys -> {"absent", "", "new", "dict", "scalar", "bad"}] :
              \A key \in StoryKeys : g[key] \in ResponseValues(key)}}
    \cup {[stage |-> "fallback", fields |-> f] :
            f \in [StoryKeys -> {"absent", "new"}] \ {[key \in StoryKeys |-> "absent"]}}
    \cup {[stage |-> "stub", fields |-> [key \in StoryKeys |-> "absent"]]}

\* previous drafts: complete, or without an experiments_plan
PreviousStories ==
  {[key \in StoryKeys |-> "old"],
   [key \in StoryKeys |-> IF key = "experiments_plan" THEN "absent" ELSE "old"]}

\* _default_story(): every field has text
DefaultStoryValues == [key \in StoryKeys |-> "stub"]

\* _fallback_parse_story: the default story, overwritten where a field is extracted
FallbackStoryValues(response) ==
  [key \in StoryKeys |->
     IF response.fields[key] = "new" THEN "new" ELSE DefaultStoryValues[key]]

\* _parse_story_response on field values
ParsedStoryValues(response) ==
  IF response.stage \in {"direct", "repaired"} THEN response.fields
  ELSE FallbackStoryValues(response)

\* `not story.get(key) or story.get(key) == ""'
IsEmptyValue(value) == value \in {"absent", "None", ""}

\* previous_story.get(key)
PreviousValue(previous_story, key) ==
  IF previous_story[key] = "absent" THEN "None" ELSE previous_story[key]

\* lines 254-258: empty fields are restored from the previous story
Restored(story, previous_story) ==
  [key \in StoryKeys |->
     IF IsEmptyValue(story[key]) THEN PreviousValue(previous_story, key) ELSE story[key]]

\* lines 260-272: a dict method_skeleton is joined, an innovation_claims that
\* is no list, empty, or holds a placeholder is restored
Normalised(story, previous_story) ==
  [key \in StoryKeys |->
     CASE key = "method_skeleton" /\ story[key] = "dict" -> "joined"
       [] key = "innovation_claims" /\ story[key] \in {"scalar", "None", "", "bad"} ->
            IF previous_story[key] = "absent" THEN "" ELSE previous_story[key]
       [] OTHER -> story[key]]

\* generate(..., previous_story=previous_story, ...) for a non-empty previous_story
EditedStory(previous_story, response) ==
  Normalised(Restored(ParsedStoryValues(response), previous_story), previous_story)

EditorEntered ==
  /\ epc = "generate"
  /\ editor_previous \in PreviousStories
  /\ editor_response \in EditorResponses
  /\ editor_story = NoneValue

EditorGenerate ==
  /\ epc = "generate"
  /\ editor_story' = EditedStory(editor_previous, editor_response)
  /\ epc' = "returned"
  /\ UNCHANGED <<editor_previous, editor_response>>
  /\ UNCHANGED outsideEditor

EditorInit ==
  PipelineIdle /\ RecallIdle /\ BuilderIdle /\ VerifierIdle /\ TypedIdle /\ EditorEntered

EditorNext == EditorGenerate

EditorSpec == EditorInit /\ [][EditorNext]_vars

(***************************************************************************)
(* The fusion on its own, over score dicts that reach more patterns than   *)
(* the final Top-K keeps.                                                  *)
(***************************************************************************)
IndexOf(pid) == CHOOSE i \in 1..Len(PatternIds) : PatternIds[i] = pid

\* first and last pattern (by index) a path scored; <<1, 0>> for none
ScoreRanges ==
  { <<1, 0>>, <<1, 4>>, <<1, Len(PatternIds)>>, <<5, Len(PatternIds) - 1>>,
    <<Len(PatternIds), Len(PatternIds)>> }

ScoreShapes == {"zero", "flat", "rising", "pairs"}

ShapeValue(shape, i) ==
  CASE shape = "zero" -> 0
    [] shape = "flat" -> 600
    [] shape = "rising" -> 100 * i
    [] OTHER -> 300 * ((i + 1) \div 2)

\* the dicts a path can return
FusionScoreMaps ==
  { [pid \in {PatternIds[i] : i \in r[1]..r[2]} |-> ShapeValue(shape, IndexOf(pid))] :
      r \in ScoreRanges, shape \in ScoreShapes }

Ascending(S) == SelectSeq(PatternIds, LAMBDA p : p \in S)

FusionEntered ==
  /\ rpc = "fuse"
  /\ variant \in Variants
  /\ user_idea = <<>>
  /\ ideas = <<>>
  /\ papers = <<>>
  /\ domains = <<>>
  /\ G = [nodes |-> {}, edges |-> {}]
  /\ path1_scores \in FusionScoreMaps
  /\ path2_scores \in FusionScoreMaps
  /\ path3_scores \in FusionScoreMaps
  /\ results = Unset
  /\ discovery = Ascending(DOMAIN path1_scores)
                   \o Ascending(DOMAIN path2_scores \ DOMAIN path1_scores)
                   \o Ascending(DOMAIN path3_scores
                                  \ (DOMAIN path1_scores \cup DOMAIN path2_scores))

FusionInit == PipelineIdle /\ FusionEntered /\ BuilderIdle /\ VerifierIdle /\ TypedIdle /\ EditorIdle

FusionNext == Fuse

FusionSpec == FusionInit /\ [][FusionNext]_vars

Init == RunEntered(PatternLists) /\ RecallIdle /\ BuilderIdle /\ VerifierIdle /\ TypedIdle /\ EditorIdle

Next == PipelineNext

Spec == Init /\ [][Next]_vars

(***************************************************************************)
(* The first critique of a run, over scores on both sides of PASS_SCORE.   *)
(***************************************************************************)
\* scores (tenths) a reviewer can give
BoundaryScoreValues == {40, 69, 70, 71, 80, 90}

BoundaryScores == BoundaryScoreValues \X BoundaryScoreValues \X BoundaryScoreValues

\* lists of one pattern
CriticLists == {l \in PatternLists : Len(l) = 1}

CritiqueBoundary == CritiqueWith(BoundaryScores)

CriticInit == RunEntered(CriticLists) /\ RecallIdle /\ BuilderIdle /\ VerifierIdle /\ TypedIdle /\ EditorIdle

CriticNext ==
  \/ Select
  \/ InitialGenerate
  \/ CritiqueBoundary

CriticSpec == CriticInit /\ [][CriticNext]_vars

(***************************************************************************)
(* PatternSelector.select on its own, over lists with a richer choice of   *)
(* cluster sizes: two niche sizes and two sizes at or above the threshold. *)
(***************************************************************************)
MaxSelectorPatterns == 4

SelectorClusterSizes == {3, 8, 12, 20}

SelectorLists ==
  UNION { { [i \in 1..n |-> [pattern_id |-> i, cluster_size |-> cs[i]]] :
              cs \in [1..n -> SelectorClusterSizes] } : n \in 0..MaxSelectorPatterns }

SelectorInit == RunEntered(SelectorLists) /\ RecallIdle /\ BuilderIdle /\ VerifierIdle /\ TypedIdle /\ EditorIdle

SelectorNext == Select

SelectorSpec == SelectorInit /\ [][SelectorNext]_vars

(***************************************************************************)
(* Properties of Idea2StoryPipeline.run                                    *)
(***************************************************************************)
\* pattern selections made by tail or head injection
Injections == SelectSeq(selectionLog, LAMBDA e : e.by \in {"novelty", "stability"})

\* pattern selections made by the stall-triggered global switch
Switches == SelectSeq(selectionLog, LAMBDA e : e.by = "switch")

\* generate() calls that end a failed iteration
RefineGenerations == SelectSeq(generateLog, LAMBDA e : e.phase = "refine")

NoCritiquePassed == \A i \in 1..Len(review_history) : ~review_history[i].pass

\* an upper bound on the steps run() still takes when it makes at most
\* MAX_REFINE_ITERATIONS + 1 passes of the loop
Rank ==
  CASE pc = "select" -> 2 * (MAX_REFINE_ITERATIONS + 1) + 5
    [] pc = "generate" -> 2 * (MAX_REFINE_ITERATIONS + 1) + 4
    [] pc = "loop" -> 2 * (MAX_REFINE_ITERATIONS + 1 - iterations) + 3
    [] pc = "refine" -> 2 * (MAX_REFINE_ITERATIONS + 1 - iterations) + 4
    [] pc = "verify" -> 2
    [] pc = "pivot" -> 1
    [] OTHER -> 0

\* C1: run() terminates (every step lowers a bound that never gets below 0)
\* and makes at most MAX_REFINE_ITERATIONS + 1 calls of review().
C1_RunTerminatesWithinBudget ==
  /\ [](reviewCalls <= MAX_REFINE_ITERATIONS + 1 /\ Rank >= 0)
  /\ [][Rank' < Rank]_vars

\* a run that used the whole budget without a pass has ended
C1_Witness ==
  /\ pc = "done"
  /\ reviewCalls = MAX_REFINE_ITERATIONS
  /\ refineCalls = MAX_REFINE_ITERATIONS
  /\ NoCritiquePassed

\* C2: a completed run reports 'needs manual review' (success = False) if and
\* only if the loop used all MAX_REFINE_ITERATIONS iterations without a pass.
C2_ManualReviewIffBudgetExhausted ==
  (pc = "done" /\ "final_story" \in DOMAIN result) =>
    (~result.success <=>
       (result.iterations = MAX_REFINE_ITERATIONS /\ NoCritiquePassed))

\* C3: tail and head injection never select a pattern that is in used_patterns,
\* and after N injections that selected a pattern used_patterns holds exactly
\* N distinct ids (those selected).
C3_InjectionNeverReusesPattern ==
  /\ \A i \in 1..Len(Injections) : ~Injections[i].already
  /\ Cardinality(used_patterns) = Len(Injections)
  /\ used_patterns = {Injections[i].pattern_id : i \in 1..Len(Injections)}

\* three injections each selected a pattern, a tail injection among them
\* taking one from outside its rank window (the relaxed search)
C3_Witness ==
  /\ Len(Injections) = 3
  /\ Cardinality(used_patterns) = 3
  /\ \E i \in 1..Len(Injections) :
       /\ Injections[i].by = "novelty"
       /\ Injections[i].pattern_id <= TAIL_INJECTION_RANK_RANGE[1]

\* C4: no pattern id is selected (by an injection or by the global switch) in
\* two different iterations of one session.
C4_NoPatternSelectedInTwoIterations ==
  \A i, j \in 1..Len(selectionLog) :
    selectionLog[i].pattern_id = selectionLog[j].pattern_id
      => selectionLog[i].iteration = selectionLog[j].iteration

\* C5: the generation call that ends a failed iteration is made without
\* previous_story and review_feedback when the global switch took place in
\* that iteration, and with them in every other failed iteration.
C5_SwitchRegeneratesElseEdits ==
  \A i \in 1..Len(RefineGenerations) :
    LET e == RefineGenerations[i]
    IN e.switched <=> e.previous = NoStory.id

\* C6: the global switch happens only when main_issue is 'novelty' in the
\* current and in the immediately preceding failed critique and the Novelty
\* score rose by no more than 0.5 between the two.
C6_SwitchOnlyAfterTwoNoveltyDiagnoses ==
  \A i \in 1..Len(Switches) :
    LET k == Switches[i].iteration
    IN /\ k >= 2
       /\ review_history[k].main_issue = "novelty"
       /\ review_history[k - 1].main_issue = "novelty"
       /\ NoveltyScore(review_history[k]) - NoveltyScore(review_history[k - 1])
            <= STALL_MARGIN

\* C6 as amended: the global switch happens only when main_issue is 'novelty'
\* in the current failed critique, a critique precedes it, and the Novelty
\* score rose by no more than 0.5 from the preceding critique to the current.
C6_SwitchOnlyOnStalledNovelty ==
  \A i \in 1..Len(Switches) :
    LET k == Switches[i].iteration
    IN /\ k >= 2
       /\ review_history[k].main_issue = "novelty"
       /\ ~review_history[k].pass
       /\ ~review_history[k - 1].pass
       /\ NoveltyScore(review_history[k]) - NoveltyScore(review_history[k - 1])
            <= STALL_MARGIN

\* a switch took place right after a critique whose main issue was not novelty
C6_Witness ==
  \E i \in 1..Len(Switches) :
    /\ Switches[i].iteration >= 2
    /\ review_history[Switches[i].iteration - 1].main_issue # "novelty"

\* C9: with an empty recalled list select() returns an empty mapping and run()
\* ends with the result {'success': False}, which no completed run returns,
\* without any generate, review, refine or verify call and with used_patterns
\* empty.
C9_EmptyRecallEndsWithoutWork ==
  /\ (recalled_patterns = <<>> /\ pc # "select") =>
       /\ pc = "done"
       /\ DOMAIN selected_patterns = {}
       /\ result = [success |-> FALSE]
       /\ generateLog = <<>>
       /\ reviewCalls = 0 /\ refineCalls = 0 /\ verifyCalls = 0
       /\ used_patterns = {}
  /\ (recalled_patterns # <<>> /\ pc = "done") =>
       /\ DOMAIN result # {"success"}
       /\ "final_story" \in DOMAIN result

\* run() has returned on an empty recalled list
C9_Witness ==
  /\ recalled_patterns = <<>>
  /\ pc = "done"
  /\ result = NoPatternResult

(***************************************************************************)
(* Properties of PatternSelector.select                                    *)
(***************************************************************************)
\* C7: select() never returns one pattern id under two slot names.
C7_SlotsHoldDistinctPatterns ==
  pc # "select" =>
    \A a, b \in DOMAIN selected_patterns :
      a # b => selected_patterns[a] # selected_patterns[b]

\* all three slots are filled
C7_Witness ==
  /\ pc # "select"
  /\ DOMAIN selected_patterns = {"conservative", "innovative", "cross_domain"}

\* ranks other than rank 1 (the conservative choice)
RestRanks == 2..Len(recalled_patterns)

NicheRanks ==
  {i \in RestRanks :
     recalled_patterns[i].cluster_size < INNOVATIVE_CLUSTER_SIZE_THRESHOLD}

SetMin(S) == CHOOSE x \in S : \A y \in S : x <= y

C10_EmptyQueryRecallsNothing ==
  user_idea = <<>> =>
    /\ rpc # "raised"
    /\ rpc \in {"path2", "path3", "fuse", "returned"} => DOMAIN path1_scores = {}
    /\ rpc \in {"path3", "fuse", "returned"} => DOMAIN path2_scores = {}
    /\ rpc \in {"fuse", "returned"} => DOMAIN path3_scores = {}
    /\ rpc = "returned" => results = <<>>
    /\ \A i \in 1..Len(ideas) : compute_similarity(user_idea, ideas[i].description) = 0
    /\ \A i \in 1..Len(papers) : compute_similarity(user_idea, papers[i].core_idea) = 0

\* recall() has returned for the empty query on a graph in which a non-empty
\* query reaches patterns
C10_Witness ==
  /\ user_idea = <<>>
  /\ rpc = "returned"
  /\ results = <<>>
  /\ OutEdges(G, "paper_1", "uses_pattern") # {}
  /\ InEdges(G, "domain_1", "works_well_in") # {}

(***************************************************************************)
(* Properties of the fusion                                                *)
(***************************************************************************)
\* the patterns some path scored
AllPatterns == DOMAIN path1_scores \cup DOMAIN path2_scores \cup DOMAIN path3_scores

\* C11: the list the fusion returns has at most FINAL_TOP_K entries and its
\* fused scores never increase from one entry to the next.
C11_FusedListIsTopKSorted ==
  rpc = "returned" =>
    /\ Len(results) <= (IF variant = "main" THEN demo_FINAL_TOP_K ELSE FINAL_TOP_K)
    /\ \A i \in 1..(Len(results) - 1) : results[i].score >= results[i + 1].score

\* more patterns were scored than the list keeps, and the list holds
\* FINAL_TOP_K entries of different scores
C11_Witness ==
  /\ rpc = "returned"
  /\ variant = "recall_system"
  /\ Cardinality(AllPatterns) > FINAL_TOP_K
  /\ Len(results) = FINAL_TOP_K
  /\ results[1].score > results[Len(results)].score

\* a path's score for a pattern, 0 when the path did not score it
ScoreOrZero(scores, pid) == IF pid \in DOMAIN scores THEN scores[pid] ELSE 0

\* C12: every entry of the fused list carries w1*path1 + w2*path2 + w3*path3,
\* a path that did not score the pattern counting 0, and a pattern no path
\* scored is not in the list.
C12_FusedScoreIsWeightedSum ==
  rpc = "returned" =>
    \A i \in 1..Len(results) :
      LET pid == results[i].pattern_id
          w1 == IF variant = "main" THEN demo_PATH1_WEIGHT ELSE PATH1_WEIGHT
          w2 == IF variant = "main" THEN demo_PATH2_WEIGHT ELSE PATH2_WEIGHT
          w3 == IF variant = "main" THEN demo_PATH3_WEIGHT ELSE PATH3_WEIGHT
      IN /\ pid \in AllPatterns
         /\ results[i].score = w1 * ScoreOrZero(path1_scores, pid)
                                 + w2 * ScoreOrZero(path2_scores, pid)
                                 + w3 * ScoreOrZero(path3_scores, pid)

\* the list holds a pattern that only paths 1 and 3 scored, beside a pattern
\* of the graph that no path scored
C12_Witness ==
  /\ rpc = "returned"
  /\ \E i \in 1..Len(results) :
       /\ results[i].pattern_id \in DOMAIN path1_scores \cap DOMAIN path3_scores
       /\ results[i].pattern_id \notin DOMAIN path2_scores
       /\ path3_scores[results[i].pattern_id] > 0
  /\ \E pid \in {"pattern_1", "pattern_2", "pattern_3"} :
       /\ pid \in G.nodes
       /\ pid \notin AllPatterns
       /\ \A i \in 1..Len(results) : results[i].pattern_id # pid

\* position of a pattern in the discovery order
DiscoveryRank(pid) == CHOOSE i \in 1..Len(discovery) : discovery[i] = pid

\* C13: patterns of equal fused score stand in the list in the order the paths
\* discovered them, and at a tie on the cut-off the earlier discovered pattern
\* is the one kept.
C13_TiesFollowDiscoveryOrder ==
  rpc = "returned" =>
    /\ \A i, j \in 1..Len(results) :
         (i < j /\ results[i].score = results[j].score)
           => DiscoveryRank(results[i].pattern_id) < DiscoveryRank(results[j].pattern_id)
    /\ \A i \in 1..Len(results) :
         \A pid \in AllPatterns \ {results[k].pattern_id : k \in 1..Len(results)} :
           FusedScore(pid, path1_scores, path2_scores, path3_scores, Weights(variant))
               = results[i].score
             => DiscoveryRank(results[i].pattern_id) < DiscoveryRank(pid)

(***************************************************************************)
(* Properties of EdgeBuilder                                               *)
(***************************************************************************)
\* the belongs_to edges of an idea
BelongsTo(idea_id) == {e \in builder_G : e.relation = "belongs_to" /\ e.source = idea_id}

\* the entries of an idea's source_paper_ids whose paper lists the domain
SourcesIn(idea, domain_id) ==
  {j \in 1..Len(idea.source_paper_ids) :
     \E i \in 1..Len(builder_papers) :
       /\ builder_papers[i].paper_id = idea.source_paper_ids[j]
       /\ \E k \in 1..Len(builder_papers[i].domains) :
            domain_name_to_id(builder_papers[i].domains[k]) = domain_id}

C16_PassIffMeanAtLeastSeven ==
  \A i \in 1..Len(review_history) :
    LET r == review_history[i]
    IN /\ r.pass <=> (r.scores[1] + r.scores[2] + r.scores[3] >= 3 * 70)
       /\ r.scores = <<80, 40, 90>> => r.pass

\* the critique scored 8.0, 4.0, 9.0 and passed
C16_Witness ==
  /\ Len(review_history) = 1
  /\ review_history[1].scores = <<80, 40, 90>>
  /\ review_history[1].pass
  /\ pc = "verify"

(***************************************************************************)
(* Properties of RAGVerifier.verify                                        *)
(***************************************************************************)
\* the positions of the papers verify samples
SampledIndices ==
  {i \in 1..Len(verifier_papers) : i <= 50}

\* every sampled paper shares no word with the draft's method description
AllDisjoint ==
  \A i \in SampledIndices :
    Tokens(method_skeleton) \cap Tokens(verifier_papers[i].method_story) = {}

\* C17: a sampled paper whose method narrative is identical to the draft's
\* method description, whatever that description, has similarity 1.0 and
\* verify reports a collision; papers of disjoint vocabulary have similarity
\* 0.0 and, alone, give no collision.
C17_IdenticalCollidesDisjointDoesNot ==
  vpc = "returned" =>
    /\ \A i \in SampledIndices :
         verifier_papers[i].method_story = method_skeleton
           => /\ _compute_similarity(method_skeleton, verifier_papers[i].method_story).num
                   = _compute_similarity(method_skeleton, verifier_papers[i].method_story).den
              /\ verifier_result.collision_detected
    /\ AllDisjoint
         => /\ \A i \in SampledIndices :
                 _compute_similarity(method_skeleton, verifier_papers[i].method_story).num = 0
            /\ ~verifier_result.collision_detected

\* C17 for a method description that holds at least one word.
C17_IdenticalWordsCollideDisjointDoNot ==
  vpc = "returned" =>
    /\ \A i \in SampledIndices :
         (Tokens(method_skeleton) # {}
            /\ verifier_papers[i].method_story = method_skeleton)
           => /\ _compute_similarity(method_skeleton, verifier_papers[i].method_story).num
                   = _compute_similarity(method_skeleton, verifier_papers[i].method_story).den
              /\ verifier_result.collision_detected
    /\ AllDisjoint
         => /\ \A i \in SampledIndices :
                 _compute_similarity(method_skeleton, verifier_papers[i].method_story).num = 0
            /\ ~verifier_result.collision_detected

\* the last sampled paper is identical to the draft and verify reports the
\* collision
C17_Witness ==
  /\ vpc = "returned"
  /\ Len(verifier_papers) > 50
  /\ Tokens(method_skeleton) # {}
  /\ verifier_papers[50].method_story = method_skeleton
  /\ \A i \in SampledIndices \ {50} :
       Tokens(method_skeleton) \cap Tokens(verifier_papers[i].method_story) = {}
  /\ verifier_result.collision_detected

(***************************************************************************)
(* Properties of recall path 1                                             *)
(***************************************************************************)
\* the ideas path 1 keeps: the Top-K by the similarity the recall computes
KeptIdeas ==
  IF variant = "main"
  THEN Slice(main_similar_ideas(user_idea, ideas), 0, TOP_K_IDEAS)
  ELSE Slice(SimilarIdeas(user_idea, ideas), 0, PATH1_TOP_K_IDEAS)

\* the (idea, source paper, uses_pattern edge) triples behind a pattern
Path1Contributions(pid) ==
  { c \in UNION { { <<i, j, e>> : e \in G.edges } :
                    i \in 1..Len(KeptIdeas),
                    j \in 1..Len(ideas[1].source_paper_ids) \cup 1..Len(ideas[2].source_paper_ids) } :
      /\ c[2] <= Len(KeptIdeas[c[1]].idea.source_paper_ids)
      /\ c[3].relation = "uses_pattern"
      /\ c[3].source = KeptIdeas[c[1]].idea.source_paper_ids[c[2]]
      /\ c[3].target = pid }

\* C18: after path 1, every pattern reached by a uses_pattern edge from a
\* source paper of a kept idea has a score, no other pattern has one, and the
\* score is the sum of idea similarity times edge quality over the
\* (idea, paper) contributions.
C18_Path1SumsSimilarityTimesQuality ==
  rpc \in {"path2", "path3", "fuse", "returned"} =>
    /\ DOMAIN path1_scores
         = {pid \in {PatternIds[k] : k \in 1..Len(PatternIds)} : Path1Contributions(pid) # {}}
    /\ \A pid \in DOMAIN path1_scores :
         path1_scores[pid]
           = SumOf(Path1Contributions(pid),
                   [c \in Path1Contributions(pid) |-> KeptIdeas[c[1]].key * c[3].quality * 10])

\* the same, for RecallSystem.recall only
C18_RecallSystemPath1 == variant = "recall_system" => C18_Path1SumsSimilarityTimesQuality

(***************************************************************************)
(* Properties of the verification and pivot phase of run()                 *)
(***************************************************************************)
LastGenerate == generateLog[Len(generateLog)]

\* C19: run() verifies once after the loop without generating; only after a
\* reported collision it generates once more, with the pivot constraints and
\* the innovative slot if present, else the cross_domain slot, and verifies
\* once more; a run that ends after one verify had no collision; verify is
\* never called more than twice.
C19_AtMostOnePivotAndTwoVerifies ==
  [][/\ verifyCalls' \in {verifyCalls, verifyCalls + 1}
     /\ verifyCalls' <= 2
     /\ (verifyCalls = 0 /\ verifyCalls' = 1) => generateLog' = generateLog
     /\ (verifyCalls = 1 /\ verifyCalls' = 2) =>
          /\ verification_result.collision_detected
          /\ Len(generateLog') = Len(generateLog) + 1
          /\ SubSeq(generateLog', 1, Len(generateLog)) = generateLog
          /\ generateLog'[Len(generateLog')].phase = "pivot"
          /\ generateLog'[Len(generateLog')].constraints = "pivot"
          /\ "innovative" \in DOMAIN selected_patterns =>
               generateLog'[Len(generateLog')].pattern_id = selected_patterns["innovative"]
          /\ ("innovative" \notin DOMAIN selected_patterns
                /\ "cross_domain" \in DOMAIN selected_patterns) =>
               generateLog'[Len(generateLog')].pattern_id = selected_patterns["cross_domain"]
     /\ (generateLog' # generateLog /\ generateLog'[Len(generateLog')].phase = "pivot") =>
          verifyCalls = 1 /\ verifyCalls' = 2
     /\ (verifyCalls' = 1 /\ pc' = "done") => ~verification_result'.collision_detected
     /\ verifyCalls = 2 => generateLog' = generateLog
    ]_vars

\* a run that pivoted with the innovative slot although a cross_domain slot
\* holding another pattern was selected, and returned after its second verify
C19_Witness ==
  /\ pc = "done"
  /\ verifyCalls = 2
  /\ generateLog # <<>>
  /\ LastGenerate.phase = "pivot"
  /\ LastGenerate.constraints = "pivot"
  /\ "innovative" \in DOMAIN selected_patterns
  /\ "cross_domain" \in DOMAIN selected_patterns
  /\ selected_patterns["innovative"] # selected_patterns["cross_domain"]
  /\ LastGenerate.pattern_id = selected_patterns["innovative"]

(***************************************************************************)
(* Robustness of run() to LLM responses                                    *)
(***************************************************************************)
\* C20: whatever the LLM responses are, generation and critique return a
\* record and run() never ends in an unhandled exception.
C20_RunNeverRaises == tpc # "raised"

(***************************************************************************)
(* Absent nodes in the recall paths                                        *)
(***************************************************************************)
\* C21: in every recall path a lookup of an id that is not in the graph or
\* the node maps contributes nothing and never raises; the recall always
\* gets past path 2.
C21_AbsentNodesNeverRaise == rpc # "raised"

(***************************************************************************)
(* Relaxation of the tail and head injection strategies                    *)
(***************************************************************************)
\* the unused recalled patterns when a refinement round starts
UnusedPool == {recalled_patterns[i] : i \in {k \in 1..Len(recalled_patterns) :
                                               recalled_patterns[k].pattern_id \notin used_patterns}}

RoundEntry == refinement_history'[Len(refinement_history')]

\* what the claim requires of a round of the given strategy whose rank
\* window has no candidate; smallest says which end of the cluster sizes
\* the strategy prefers
RelaxedAsClaimed(smallest) ==
  IF UnusedPool = {}
  THEN /\ RoundEntry.injected_tricks # <<>>
       /\ used_patterns' = used_patterns
  ELSE \E p \in UnusedPool :
         /\ used_patterns' = used_patterns \cup {p.pattern_id}
         /\ \A q \in UnusedPool : IF smallest THEN p.cluster_size <= q.cluster_size
                                  ELSE p.cluster_size >= q.cluster_size

\* the tail half of C22
C22_TailRelaxation ==
  [][(refineCalls' = refineCalls + 1 /\ RoundEntry.issue = "novelty"
        /\ TailWindowCandidates(recalled_patterns, used_patterns) = <<>>)
       => RelaxedAsClaimed(TRUE)]_vars

\* C22: when the rank window of tail or head injection has no unused
\* candidate meeting the cluster-size constraint, the strategy selects from
\* the whole unused pool (smallest cluster for tail, largest for head), and
\* only when nothing is unused it returns a non-empty generic fallback and
\* leaves used_patterns unchanged.
C22_RelaxationSearchesWholePool ==
  [][/\ (refineCalls' = refineCalls + 1 /\ RoundEntry.issue = "novelty"
           /\ TailWindowCandidates(recalled_patterns, used_patterns) = <<>>)
          => RelaxedAsClaimed(TRUE)
     /\ (refineCalls' = refineCalls + 1 /\ RoundEntry.issue = "stability"
           /\ HeadWindowCandidates(recalled_patterns, used_patterns) = <<>>)
          => RelaxedAsClaimed(FALSE)]_vars

(***************************************************************************)
(* Editor mode keeps the previous draft's fields                           *)
(***************************************************************************)
\* a field is absent or empty in the LLM response
MissingInResponse(key) == editor_response.fields[key] \in {"absent", ""}

\* C23: in editor mode every field that is absent or empty in the LLM
\* response has the previous draft's value in the returned draft, whichever
\* parsing stage produced the new draft.
C23_MissingFieldsKeepPreviousValue ==
  epc = "returned" =>
    \A key \in StoryKeys :
      MissingInResponse(key) => editor_story[key] = PreviousValue(editor_previous, key)

\* the same for responses parsed as JSON, directly or after repair
C23_ParsedJsonKeepsPreviousValue ==
  editor_response.stage \in {"direct", "repaired"} => C23_MissingFieldsKeepPreviousValue

(***************************************************************************)
(* Diagnosis and choice of the refinement strategy                         *)
(***************************************************************************)
\* the issue of the lowest-scoring reviewer, the earliest one on a tie
LowestReviewerIssue(scores) ==
  IF scores[1] <= scores[2] /\ scores[1] <= scores[3] THEN "stability"
  ELSE IF scores[2] <= scores[3] THEN "novelty"
  ELSE "interpretability"

LastReview == review_history[Len(review_history)]

LastRefinement == refinement_history[Len(refinement_history)]

\* the strategies whose notes a list of injected notes carries
StrategiesOf(tricks) == {tricks[i][1] : i \in 1..Len(tricks)}

\* C24: a failed critique's main_issue is that of the lowest-scoring
\* reviewer (the earliest of Methodology, Novelty, Storyteller on a tie);
\* the round that follows runs tail injection for 'novelty', head injection
\* for 'stability' and the fixed explanation suggestions for
\* 'interpretability', which leave used_patterns unchanged.
C24_LowestReviewerChoosesStrategy ==
  [][/\ (reviewCalls' = reviewCalls + 1 /\ ~LastReview'.pass) =>
          LastReview'.main_issue = LowestReviewerIssue(LastReview'.scores)
     /\ refineCalls' = refineCalls + 1 =>
          /\ LastRefinement'.issue = LowestReviewerIssue(LastReview.scores)
          /\ LastRefinement'.issue = "novelty" =>
               StrategiesOf(LastRefinement'.injected_tricks) \in {{"tail"}, {"generic"}}
          /\ LastRefinement'.issue = "stability" =>
               StrategiesOf(LastRefinement'.injected_tricks) \in {{"head"}, {}}
          /\ LastRefinement'.issue = "interpretability" =>
               /\ LastRefinement'.injected_tricks = FixedTricks("explanation")
               /\ used_patterns' = used_patterns]_vars

\* a run whose critique tied Methodology and Novelty at the minimum and whose
\* round therefore ran head injection
C24_Witness ==
  /\ refinement_history # <<>>
  /\ review_history # <<>>
  /\ review_history[1].scores[1] = review_history[1].scores[2]
  /\ review_history[1].scores[1] < review_history[1].scores[3]
  /\ refinement_history[1].issue = "stability"
  /\ StrategiesOf(refinement_history[1].injected_tricks) = {"head"}

(***************************************************************************)
(* The accumulated technique notes                                         *)
(***************************************************************************)
NoDuplicates(seq) == \A i, j \in 1..Len(seq) : seq[i] = seq[j] => i = j

IsPrefix(a, b) == Len(a) <= Len(b) /\ SubSeq(b, 1, Len(a)) = a

\* C25: injected_tricks never holds the same note twice; it is empty at the
\* initial generation; a round without a global switch only extends it; a
\* round with a global switch leaves exactly the notes injected in that
\* round; nothing else changes it.
C25_NotesAccumulateWithoutDuplicates ==
  [][/\ NoDuplicates(injected_tricks')
     /\ (generateLog = <<>> /\ generateLog' # <<>>) => injected_tricks' = <<>>
     /\ refineCalls' = refineCalls => injected_tricks' = injected_tricks
     /\ refineCalls' = refineCalls + 1 =>
          IF generateLog'[Len(generateLog')].switched
          THEN injected_tricks' = LastRefinement'.injected_tricks
          ELSE /\ IsPrefix(injected_tricks, injected_tricks')
               /\ \A i \in 1..Len(LastRefinement'.injected_tricks) :
                    InSeq(LastRefinement'.injected_tricks[i], injected_tricks')
               /\ \A i \in 1..Len(injected_tricks') :
                    \/ InSeq(injected_tricks'[i], injected_tricks)
                    \/ InSeq(injected_tricks'[i], LastRefinement'.injected_tricks)]_vars

\* just after a global switch that dropped the notes of an earlier round,
\* and a round that injected notes the list already held
C25_Witness ==
  /\ pc = "loop"
  /\ Len(refinement_history) = 3
  /\ generateLog[Len(generateLog)].switched
  /\ refinement_history[1].injected_tricks # <<>>
  /\ \A i \in 1..Len(refinement_history[1].injected_tricks) :
       ~InSeq(refinement_history[1].injected_tricks[i], injected_tricks)
  /\ injected_tricks = refinement_history[3].injected_tricks
  /\ injected_tricks # <<>>

\* a round that injected notes the list already held
C25_RepeatedNotesReached ==
  /\ Len(refinement_history) >= 2
  /\ refinement_history[1].injected_tricks = refinement_history[2].injected_tricks
  /\ injected_tricks = refinement_history[1].injected_tricks
  /\ injected_tricks # <<>>

(***************************************************************************)
(* The sample, the reported maximum and the collision of RAGVerifier.verify *)
(***************************************************************************)
\* word overlap of the draft's method description with paper i, as a ratio
Overlap(i) ==
  LET draft == Tokens(method_skeleton)
      story == Tokens(verifier_papers[i].method_story)
  IN IF draft = {} \/ story = {} THEN [num |-> 0, den |-> 1]
     ELSE [num |-> Cardinality(draft \cap story), den |-> Cardinality(draft \cup story)]

SameRatio(a, b) == a.num * b.den = b.num * a.den

AtMostRatio(a, b) == a.num * b.den <= b.num * a.den

\* the reported max_similarity is the largest overlap within the sample
ReportsSampleMaximum ==
  /\ \A i \in SampledIndices : AtMostRatio(Overlap(i), verifier_result.max_similarity)
  /\ \/ \E i \in SampledIndices : SameRatio(Overlap(i), verifier_result.max_similarity)
     \/ SampledIndices = {} /\ verifier_result.max_similarity.num = 0

\* a collision exactly when some sampled paper overlaps by more than 0.75
CollisionIffSampledAboveThreshold ==
  verifier_result.collision_detected
    <=> \E i \in SampledIndices : Overlap(i).num * 100 > 75 * Overlap(i).den

\* C26: verify compares the draft with the first 50 papers only, reports the
\* largest similarity among them as max_similarity, and declares a collision
\* exactly when that maximum is strictly above 0.75.
C26_ReportsMaximumOfFirstFifty ==
  vpc = "returned" => ReportsSampleMaximum /\ CollisionIffSampledAboveThreshold

\* the collision half of C26
C26_CollisionFromFirstFiftyOnly == vpc = "returned" => CollisionIffSampledAboveThreshold

(***************************************************************************)
(* A run whose LLM calls fail                                              *)
(***************************************************************************)
\* a failed critique call gives the reviewer the default score
FailedCritiqueScoresDefault ==
  \A response \in CriticResponses :
    CallFailed(response) => _single_review_typed(response).score = DEFAULT_SCORE

\* what holds of a run all of whose LLM calls failed, apart from the draft
AllFailedRunGoesOn ==
  (tpc # "idle" /\ all_failed) =>
    /\ tpc # "raised"
    /\ typed_review # NoneValue =>
         /\ \A i \in 1..Len(typed_review.reviews) :
              typed_review.reviews[i].score = DEFAULT_SCORE
         /\ ~typed_review.pass
    /\ tpc \in {"verify", "pivot", "returned"} => typed_iterations = MAX_REFINE_ITERATIONS
    /\ typed_iterations <= MAX_REFINE_ITERATIONS

\* C27 as stated: a failed call does not abort the run; a failed critique
\* call scores 5.0 and a failed generation call yields a draft with empty
\* fields; when every call fails each critique has mean 5.0 and fails and
\* the run reaches verification after MAX_REFINE_ITERATIONS iterations.
C27_FailedCallsGiveEmptyDraft ==
  /\ FailedCritiqueScoresDefault
  /\ AllFailedRunGoesOn
  /\ (tpc # "idle" /\ all_failed /\ typed_story # NoneValue) =>
       \A key \in DOMAIN typed_story : ~Truthy(typed_story[key])

\* C27 amended: as above, but a failed generation call yields the default
\* story of _default_story, whose fields all hold text.
C27_FailedCallsGiveDefaultStory ==
  /\ FailedCritiqueScoresDefault
  /\ AllFailedRunGoesOn
  /\ (tpc # "idle" /\ all_failed /\ typed_story # NoneValue) =>
       /\ typed_story = _default_story
       /\ \A key \in DOMAIN typed_story : Truthy(typed_story[key])

\* a run all of whose calls failed has returned after three failed critiques
C27_Witness ==
  /\ tpc = "returned"
  /\ all_failed
  /\ typed_iterations = MAX_REFINE_ITERATIONS
  /\ typed_story = _default_story
  /\ ~typed_review.pass

(***************************************************************************)
(* The draft that goes to verification                                     *)
(***************************************************************************)
\* the current draft was generated by the refinement round that followed
\* the last critique, so no critique has examined it
GeneratedAfterLastCritique ==
  /\ generateLog[current_story.id].phase = "refine"
  /\ generateLog[current_story.id].iteration = Len(review_history)

\* C28 as stated: the draft passed to verification is the draft the last
\* critique examined, on a pass and on budget exhaustion alike.
C28_VerifiedDraftWasCritiquedLast ==
  pc = "verify" => ~GeneratedAfterLastCritique

\* C28 amended: after a pass the draft passed to verification is the one
\* that passed; on budget exhaustion it is the draft generated by the last
\* refinement round, after the final critique, which no critique examined.
C28_VerifiedDraftIsLastGenerated ==
  pc = "verify" =>
    /\ current_story.id = Len(generateLog)
    /\ IF LastReview.pass
       THEN ~GeneratedAfterLastCritique
       ELSE /\ iterations = MAX_REFINE_ITERATIONS
            /\ GeneratedAfterLastCritique

\* a run that exhausted its budget is about to verify a draft generated
\* after its third critique
C28_Witness ==
  /\ pc = "verify"
  /\ Len(review_history) = MAX_REFINE_ITERATIONS
  /\ ~LastReview.pass
  /\ GeneratedAfterLastCritique
  /\ Len(generateLog) = MAX_REFINE_ITERATIONS + 1

(***************************************************************************)
(* The domain strategy is never used                                       *)
(***************************************************************************)
UsedIssues == {"novelty", "stability", "interpretability"}

\* C29: with the three built-in reviewers main_issue is never
\* 'domain_mismatch', no note of _inject_domain_tricks is ever injected, and
\* every refinement round is a tail, head or explanation round.
C29_DomainStrategyNeverRuns ==
  /\ \A i \in 1..Len(review_history) : review_history[i].main_issue \in UsedIssues
  /\ \A i \in 1..Len(refinement_history) :
       /\ refinement_history[i].issue \in UsedIssues
       /\ "domain" \notin StrategiesOf(refinement_history[i].injected_tricks)
  /\ "domain" \notin StrategiesOf(injected_tricks)

\* a run whose three rounds used the three strategies
C29_Witness ==
  /\ Len(refinement_history) = 3
  /\ {refinement_history[i].issue : i \in 1..3} = UsedIssues
  /\ pc \in {"verify", "pivot", "done"}

(***************************************************************************)
(* The bookkeeping of run() after pattern selection                        *)
(***************************************************************************)
AfterSelection == pc \in {"loop", "refine", "verify", "pivot", "done"} /\ result # NoPatternResult

FailedCritiques == Cardinality({i \in 1..Len(review_history) : ~review_history[i].pass})

RecalledPatternIds == {recalled_patterns[i].pattern_id : i \in 1..Len(recalled_patterns)}

\* the clauses about iterations, used_patterns and the recalled list
CountersAndUsedPatterns ==
  /\ iterations = Len(review_history)
  /\ iterations <= MAX_REFINE_ITERATIONS
  /\ Cardinality(used_patterns) <= Len(refinement_history)
  /\ used_patterns \subseteq RecalledPatternIds

\* the round whose critique failed has not been refined yet
RoundInProgress == pc = "refine"

C30_RoundInProgressReached ==
  /\ RoundInProgress
  /\ Len(refinement_history) = FailedCritiques - 1

====
